---------------------------- MODULE Spec2Model ----------------------------
(***************************************************************************)
(* Cloud API client of mqtt-lamarzocco (app/lamarzocco/client.go).         *)
(*                                                                         *)
(* The module models the session manager (registerClient, authenticate,   *)
(* refreshToken, ensureValidToken) and the command executor               *)
(* (doAuthenticatedRequestWithRetry) of type Client, called by two        *)
(* goroutines.  Every lock-protected section of the source is one atomic  *)
(* step; every http.Client.Do is split into the step that sends the       *)
(* request and the step that receives the (arbitrary) answer, so that     *)
(* the other goroutine runs while a request is in flight.                 *)
(*                                                                         *)
(* The state is the installation key (keyLock), the token (tokenLock),    *)
(* the serial number and the machine data under modeLock.  No step of the  *)
(* session manager or the executor reads the machine data, so the          *)
(* specifications are split: Spec and RaceSpec run two goroutines through  *)
(* the session manager and the executor, SeqSpec runs one goroutine        *)
(* through Connect and the dose commands, SyncSpec, DoseSpec and PollSpec *)
(* run the callers of doAuthenticatedRequest on the machine data with the  *)
(* executor reduced to what it returns.                                    *)
(*                                                                         *)
(* Time is counted in minutes.                                             *)
(***************************************************************************)
EXTENDS Integers, Sequences, FiniteSets, TLC

\* ------------------------------------------------------------------ bounds
MaxKeys == 2       \* installation keys GenerateInstallationKey hands out
MaxIssued == 2     \* tokens the vendor service issues

\* ------------------------------------------------------- program constants
ValidityWindow == 60
RefreshMargin == 5
StatusOK == 200
StatusCreated == 201
StatusUnauthorized == 401

\* ------------------------------------------------------------- value sets
\* "main" runs Connect and the requests of the command handlers, "poller"
\* runs StartPolling.
Threads == {"main", "poller"}
\* The instants at which the clock is looked at.  For a token stored at the
\* start they are the three cases of client.go:278: expiry more than 5
\* minutes away, exactly 5 minutes away, less than 5 minutes away.
Instants == {0, ValidityWindow - RefreshMargin, ValidityWindow - RefreshMargin + 1}

NoKey == 0
NoToken == [AccessToken |-> 0, RefreshToken |-> 0, ExpiresAt |-> -1]
Empty == 0
NoResp == -1
NoGrant == [id |-> 0, body |-> "none"]

\* types.go:5-11 DoseMode
DoseModes == {"Dose1", "Dose2", "Continuous"}
\* nil *DoseInfo, *BoilerInfo, *ScaleInfo
NoDose == -1
NoBoiler == [Ready |-> FALSE, RemainingSeconds |-> -1]
NoScale == [Connected |-> FALSE, BatteryLevel |-> -1]
\* client.go:471: dashboardData{mode: DoseModeContinuous}; also the fields of
\* a new Client (NewClient, client.go:44-53)
NoData ==
    [mode |-> "Continuous", dose1 |-> NoDose, dose2 |-> NoDose, machineOn |-> FALSE,
     boiler |-> NoBoiler, scale |-> NoScale]
\* a dashboard body json.Unmarshal rejects (client.go:475-477)
NoBody == [valid |-> FALSE, connected |-> <<>>, direct |-> "absent", widgets |-> <<>>]
\* no proof is being computed, no signature being made
NoProof == [secret |-> <<>>, baseString |-> <<>>, work |-> <<>>, done |-> 0, pc |-> "idle"]
NoSig == [r |-> <<>>, s |-> <<>>, der |-> <<>>, read |-> <<>>, pc |-> "idle"]
\* the status topic before anything is published; seq flips with every
\* publication
NoPublished == [status |-> "none", seq |-> 0]
\* web.go:47: make(chan lamarzocco.MachineStatus, 10)
StatusChanSize == 10
\* web.go:224: make(chan string, 10)
ChannelSize == 10
\* the connections to the event stream
SseIds == {"c1", "c2"}
\* broadcastLoop at its range (web.go:71-75), an event stream not opened;
\* skipped, dropped and panic are history: the clients whose channel was
\* full in this broadcast, the status last offered to statusChan was left
\* out, a send on a closed channel has happened
NoLoop == [pc |-> "range", status |-> "none", todo |-> {}, skipped |-> {}]
NoClient == [pc |-> "none", channel |-> <<>>]
NoWeb ==
    [started |-> FALSE, statusChan |-> <<>>, loop |-> NoLoop,
     mu |-> [writer |-> "none", readers |-> {}], sseClients |-> {},
     clients |-> [c \in SseIds |-> NoClient], panic |-> FALSE,
     dropped |-> FALSE]
\* main before it reads its configuration (part_004:187-198)
NoApp == [pc |-> "LoadConfig", web |-> FALSE, polling |-> FALSE]
\* no message is being handled
NoMessage ==
    [pc |-> "none", cmd |-> <<>>, stage |-> 0, log |-> <<>>,
     triggers |-> <<>>, payload |-> <<>>, fired |-> <<>>, calls |-> 0]
\* modeLock held by nobody, no goroutine storing or copying the machine data
NoAccess ==
    [mu |-> [writer |-> "none", readers |-> {}],
     writer |-> [pc |-> "idle", k |-> 0, fields |-> <<>>, data |-> NoData],
     reader |-> [pc |-> "idle", k |-> 0, got |-> NoData, seen |-> NoData],
     committed |-> NoData]
NetErr == 0
ServerError == 500

ErrNil == "nil"
ErrKeyGen == "failed to generate installation key"
ErrInitRequest == "init request failed"
ErrInitStatus == "init failed with status"
ErrSign == "failed to generate extra headers"
ErrAuthRequest == "auth request failed"
ErrAuthStatus == "auth failed with status"
ErrAuthDecode == "failed to decode auth response"
ErrRefreshRequest == "refresh request failed"
ErrRefreshDecode == "failed to decode refresh response"
ErrReauth == "re-authentication failed"
ErrTransport == "transport error"
ErrThings == "failed to fetch things"
ErrThingsDecode == "failed to decode things response"
ErrNoMachines == "no machines found in account"
ErrDashboard == "failed to fetch dashboard"
ErrDashboardRead == "failed to read dashboard response"
ErrSetMode == "failed to set mode"
ErrSetDose == "failed to set dose"
ErrBadRequest == "bad request"
ErrBackFlush == "failed to start back flush"
StatusAccepted == 202

\* the spec's error classes, by the messages the code produces
RegistrationFailed == {ErrKeyGen, ErrInitRequest, ErrInitStatus}
AuthenticationFailed == {ErrSign, ErrAuthRequest, ErrAuthStatus, ErrAuthDecode}

\* Answers of the vendor service.  Status 0 is a transport error (no answer).
InitStatuses == {NetErr, StatusOK, StatusCreated, ServerError}
AuthResponses ==
    { [status |-> NetErr, body |-> "none"],
      [status |-> StatusUnauthorized, body |-> "none"],
      [status |-> StatusOK, body |-> "garbage"],
      [status |-> StatusOK, body |-> "norefresh"],
      [status |-> StatusOK, body |-> "full"] }
TargetStatuses == {NetErr, StatusOK, StatusUnauthorized, ServerError}
ThingsBodies == {"garbage", "empty", "one"}

VARIABLES
    installKey,   \* c.installKey: NoKey or the id of an InstallationKey
    token,        \* c.token: NoToken or a TokenInfo
    now,          \* time.Now(), minutes
    nextKey,      \* id of the next key GenerateInstallationKey returns
    issued,       \* number of tokens the vendor service has issued
    registered,   \* keys whose /auth/init handshake the service accepted
    storedAt,     \* history: time at which c.token was last written
    th,           \* per goroutine: its position and its local variables
    serial,       \* c.serial
    snapshot,     \* c.currentMode, c.dose1, c.dose2, c.machineOn, c.boiler, c.scale
    vendor,       \* the doses of the last dose command the vendor service accepted
    tick,         \* ticker.C of StartPolling holds a tick
    stop,         \* stopCh of StartPolling is closed
    dashboard,    \* the dashboard body the vendor service holds for the machine
    proof,        \* GenerateRequestProof: its arguments, work and the bytes done
    sig,          \* a signature: r and s, its DER encoding, what a decoder reads
    onStatusChange, \* c.onStatusChange, the callback registered with the client
    published,    \* what the MQTT status topic holds
    web,          \* the WebServer: statusChan, sseClients, sseClientsMu and its goroutines
    app,          \* the main program: its position and its configuration
    mq,           \* the goroutine of an MQTT message handler
    rw            \* the snapshot group read and written field by field

\* the callback, the collaborators and the main program
wiring == <<onStatusChange, published, web, app, mq, rw>>

vars == <<installKey, token, now, nextKey, issued, registered, storedAt, th,
          serial, snapshot, vendor, tick, stop, dashboard, proof, sig,
          wiring>>

\* the machine data, the poller's channels and the inputs of the functions
machine == <<serial, snapshot, vendor, tick, stop, dashboard, proof, sig>>
\* what the session manager and the executor leave alone
device == <<serial, snapshot, vendor, tick, stop, dashboard, proof, sig, wiring>>
\* what the callers of the executor leave alone
session == <<installKey, token, nextKey, issued, registered, storedAt>>

(***************************************************************************)
(* The fields of th[t]:                                                    *)
(*   pc           position in the code                                     *)
(*   caller       the function that called doAuthenticatedRequest, or     *)
(*                "Connect" while Connect runs authenticate                *)
(*   authCaller   where authenticate returns to                            *)
(*   allowRetry   parameter of doAuthenticatedRequestWithRetry             *)
(*   installKey   local installKey of authenticate, refreshToken and       *)
(*                doAuthenticatedRequestWithRetry                          *)
(*   newKey       local installKey of registerClient                       *)
(*   refreshToken local refreshToken of refreshToken                       *)
(*   accessToken  local accessToken of doAuthenticatedRequestWithRetry     *)
(*   signed       the request in flight carries the signature headers      *)
(*   targets      statuses answered to the target requests of the current  *)
(*                doAuthenticatedRequest                                   *)
(*   err          the error being returned                                 *)
(*   resp         status of the last answer received (0: transport error)  *)
(*   grant        the AuthResponse the vendor service has issued for the    *)
(*                sign-in or refresh request in flight, NoGrant before      *)
(*   mode         parameter of SetMode                                      *)
(*   doseId, weight   parameters of SetDose                                 *)
(*   roundedWeight, dose1Val, dose2Val   locals of SetDose                  *)
(*   op           "Connect" while Connect runs fetchCurrentMode,           *)
(*                "StartPolling" in the goroutine of StartPolling           *)
(*   ret          what the last operation on the machine data returned      *)
(*   notified     history: that operation called the status callback        *)
(*   held         the locks the goroutine holds                             *)
(*   ensure       history: the way the current call of ensureValidToken    *)
(*                took: "noop", "authenticate", "refreshToken" (refresh   *)
(*                request), "delegate" (refreshToken called authenticate   *)
(*                without a request), "fallback" (refreshToken called      *)
(*                authenticate after a non-200 answer); "ok" once the      *)
(*                request goes on, "none" before the call                  *)
(***************************************************************************)
Idle ==
    [pc |-> "idle", caller |-> "none", authCaller |-> "none", allowRetry |-> TRUE,
     installKey |-> NoKey, newKey |-> NoKey, refreshToken |-> Empty,
     accessToken |-> 0, signed |-> FALSE, targets |-> <<>>,
     err |-> ErrNil, resp |-> NoResp, ensure |-> "none", grant |-> NoGrant,
     mode |-> "none", doseId |-> "none", weight |-> 0, roundedWeight |-> 0,
     dose1Val |-> 0, dose2Val |-> 0, op |-> "none", ret |-> ErrNil, notified |-> FALSE, held |-> {}]

RefreshPaths == {"refreshToken", "delegate", "fallback"}

\* ---------------------------------------------------------------- helpers
\* mutant of NewToken: the expiry is computed with the refresh margin
NewToken_WrongExpiry(n, body, time) ==
    [AccessToken |-> n,
     RefreshToken |-> IF body = "full" THEN n ELSE Empty,
     ExpiresAt |-> time + RefreshMargin]

\* client.go:177-183, 255-261: the TokenInfo built from an AuthResponse
NewToken(n, body, time) ==
    [AccessToken |-> n,
     RefreshToken |-> IF body = "full" THEN n ELSE Empty,
     ExpiresAt |-> time + ValidityWindow]

\* mutant of NeedsRefresh: Before instead of After
NeedsRefresh_Before(tok, time) == time + RefreshMargin < tok.ExpiresAt

\* client.go:278: time.Now().Add(5 * time.Minute).After(token.ExpiresAt)
NeedsRefresh(tok, time) == time + RefreshMargin > tok.ExpiresAt

\* ------------------------------------------------------- returning control
\* A public operation returns e to its caller (which logs it); the goroutine
\* is free for its next call.
Done(s, e) == Idle

\* client.go:286-288: doAuthenticatedRequest(method, url, body), called by c
EnterRequest(s, c) == [Idle EXCEPT !.pc = "ensureValidToken", !.caller = c]

\* doAuthenticatedRequestWithRetry returns (resp, e) to s.caller; also
\* Connect's authenticate returning the error e to Connect.
ExecReturn(s, e) ==
    [s EXCEPT !.pc = "exec_ret", !.err = e, !.installKey = NoKey,
              !.refreshToken = Empty, !.signed = FALSE, !.authCaller = "none",
              !.allowRetry = TRUE]

\* client.go:291-293: ensureValidToken returns e to
\* doAuthenticatedRequestWithRetry, which returns the error or goes on
EnsureReturn(s, e) ==
    IF e # ErrNil
    THEN ExecReturn(s, e)
    ELSE [s EXCEPT !.pc = "exec_token", !.installKey = NoKey, !.refreshToken = Empty,
                   !.signed = FALSE, !.authCaller = "none"]

\* mutant of RetryRequest: the retry re-sends without ensureValidToken
RetryRequest_NoEnsure(s) ==
    [s EXCEPT !.pc = "exec_token", !.allowRetry = FALSE, !.installKey = NoKey,
              !.accessToken = 0, !.signed = FALSE, !.authCaller = "none",
              !.resp = NoResp, !.ensure = "none"]

\* client.go:344: the recursive call doAuthenticatedRequestWithRetry(.., false)
RetryRequest(s) ==
    [s EXCEPT !.pc = "ensureValidToken", !.allowRetry = FALSE, !.installKey = NoKey,
              !.accessToken = 0, !.signed = FALSE, !.authCaller = "none",
              !.resp = NoResp, !.ensure = "none"]

\* authenticate returns e: to Connect (client.go:351-358), to the 401 handler
\* (client.go:341-344), or to ensureValidToken, directly or through
\* refreshToken's "return c.authenticate()".
AuthReturn(s, e) ==
    CASE s.authCaller = "Connect" ->
            IF e # ErrNil THEN ExecReturn(s, e) ELSE EnterRequest(s, "fetchMachineInfo")
      [] s.authCaller = "retry" ->
            IF e # ErrNil THEN ExecReturn([s EXCEPT !.resp = NoResp], ErrReauth) ELSE RetryRequest(s)
      [] OTHER -> EnsureReturn(s, e)

\* NewClient (client.go:44-53): the state after construction, whatever the
\* vendor service holds
Start ==
    /\ installKey = NoKey
    /\ token = NoToken
    /\ now = 0
    /\ nextKey = 1
    /\ issued = 0
    /\ registered = {}
    /\ storedAt = 0
    /\ th = [t \in Threads |-> Idle]
    /\ serial = ""
    /\ snapshot = NoData
    /\ vendor = <<NoDose, NoDose>>
    /\ tick = FALSE
    /\ stop = FALSE

\* NewClient leaves the callback nil (client.go:44-53); nothing is published,
\* no web server exists and the main program is at its start
Unwired ==
    /\ onStatusChange = "nil"
    /\ published = NoPublished
    /\ web = NoWeb
    /\ app = NoApp
    /\ mq = NoMessage
    /\ rw = NoAccess

Init ==
    /\ Start
    /\ Unwired
    /\ dashboard = NoBody
    /\ proof = NoProof
    /\ sig = NoSig

Step(t, s) == th' = [th EXCEPT ![t] = s]

\* sync.RWMutex Lock/RLock and Unlock/RUnlock, as far as the goroutine's own
\* holding goes
Lock(s, l) == [s EXCEPT !.held = @ \cup {l}]

\* mutant of Unlock: the lock is not released
Unlock_Missing(s, l) == s

Unlock(s, l) == [s EXCEPT !.held = @ \ {l}]

\* A step of t that runs under lock l and releases it: s is its result.
Critical(t, l, s) == Step(t, Unlock(Lock(s, l), l))

\* ------------------------------------------------------ public operations
\* client.go:350-353: Connect calls authenticate
Connect(t) ==
    /\ t = "main"
    /\ th[t].pc = "idle"
    /\ Step(t, [Idle EXCEPT !.pc = "authenticate", !.caller = "Connect",
                            !.authCaller = "Connect"])
    /\ UNCHANGED <<installKey, token, now, nextKey, issued, registered, storedAt, device>>

\* client.go:399-402: fetchCurrentMode, run by StartPolling at every tick,
\* calls doAuthenticatedRequest
fetchCurrentMode(t) ==
    /\ th[t].pc = "idle"
    /\ Step(t, EnterRequest(th[t], "fetchCurrentMode"))
    /\ UNCHANGED <<installKey, token, now, nextKey, issued, registered, storedAt, device>>

\* ----------------------------------------------------------- authenticate
\* client.go:132-163: build the sign-in request, sign it with key k, send it
SendSignin(s, k, signOK) ==
    IF signOK
    THEN [s EXCEPT !.pc = "signin", !.installKey = k, !.signed = TRUE, !.resp = NoResp]
    ELSE AuthReturn(s, ErrSign)

\* client.go:60-98: registerClient generates key k and sends /auth/init
SendInit(s, k, genOK) ==
    IF genOK
    THEN [s EXCEPT !.pc = "registerClient", !.newKey = k, !.resp = NoResp]
    ELSE AuthReturn(s, ErrKeyGen)

\* client.go:117-130: read c.installKey; when it is nil call registerClient,
\* otherwise go on to the sign-in
authenticate(t) ==
    /\ th[t].pc = "authenticate"
    /\ IF installKey = NoKey
       THEN \E genOK \in BOOLEAN :
               /\ genOK => nextKey <= MaxKeys
               /\ Critical(t, "keyLock", SendInit(th[t], nextKey, genOK))
               /\ nextKey' = IF genOK THEN nextKey + 1 ELSE nextKey
       ELSE /\ \E signOK \in BOOLEAN : Critical(t, "keyLock", SendSignin(th[t], installKey, signOK))
            /\ UNCHANGED nextKey
    /\ UNCHANGED <<installKey, token, now, issued, registered, storedAt, device>>

\* mutant of RegisterStep: the key is stored before the status is looked at
RegisterStep_KeepKey(s, st) ==
    IF st = NetErr
    THEN [key |-> s.newKey, th |-> AuthReturn(s, ErrInitRequest)]
    ELSE IF st # StatusOK /\ st # StatusCreated
    THEN [key |-> s.newKey, th |-> AuthReturn(s, ErrInitStatus)]
    ELSE [key |-> s.newKey, th |-> [s EXCEPT !.pc = "authenticate_reread"]]

\* mutant of RegisterStep: the status of the answer is not checked
RegisterStep_IgnoreStatus(s, st) ==
    IF st = NetErr
    THEN [key |-> NoKey, th |-> AuthReturn(s, ErrInitRequest)]
    ELSE [key |-> s.newKey, th |-> [s EXCEPT !.pc = "authenticate_reread"]]

\* client.go:98-115: the answer st to /auth/init; the service has accepted
\* the key exactly when it answers 200 or 201
RegisterStep(s, st) ==
    IF st = NetErr
    THEN [key |-> NoKey, th |-> AuthReturn(s, ErrInitRequest)]
    ELSE IF st # StatusOK /\ st # StatusCreated
    THEN [key |-> NoKey, th |-> AuthReturn(s, ErrInitStatus)]
    ELSE [key |-> s.newKey, th |-> [s EXCEPT !.pc = "authenticate_reread"]]

registerClient(t, st) ==
    /\ th[t].pc = "registerClient"
    /\ LET out == RegisterStep(th[t], st)
       IN  /\ installKey' = IF out.key # NoKey THEN out.key ELSE installKey
           /\ Critical(t, "keyLock", [out.th EXCEPT !.newKey = NoKey])
    /\ registered' = IF st \in {StatusOK, StatusCreated}
                     THEN registered \cup {th[t].newKey} ELSE registered
    /\ UNCHANGED <<token, now, nextKey, issued, storedAt, device>>

\* client.go:127-163: re-read c.installKey after registerClient, then sign in
authenticate_reread(t) ==
    /\ th[t].pc = "authenticate_reread"
    /\ \E signOK \in BOOLEAN : Critical(t, "keyLock", SendSignin(th[t], installKey, signOK))
    /\ UNCHANGED <<installKey, token, now, nextKey, issued, registered, storedAt, device>>

\* The vendor service answers the sign-in or refresh request in flight with
\* a new token pair, and the answer is on its way to the client: the
\* answers to two requests can arrive in the other order than they were
\* issued in.
issue(t, body) ==
    /\ th[t].pc \in {"signin", "refresh"}
    /\ th[t].grant = NoGrant
    /\ issued < MaxIssued
    /\ issued' = issued + 1
    /\ Step(t, [th[t] EXCEPT !.grant = [id |-> issued + 1, body |-> body]])
    /\ UNCHANGED <<installKey, token, now, nextKey, registered, storedAt, device>>

\* The answers the request in flight of s can get: the token pair already
\* issued for it, or else any answer
Answers(s) ==
    IF s.grant # NoGrant
    THEN {[status |-> StatusOK, body |-> s.grant.body]}
    ELSE AuthResponses

\* The token pair in the successful answer to s: the one issued for it
\* earlier, or the next one
Granted(s, n) == IF s.grant # NoGrant THEN s.grant.id ELSE n + 1

\* client.go:160-188: the answer r to /auth/signin
signin(t, r) ==
    /\ th[t].pc = "signin"
    /\ r \in Answers(th[t])
    /\ LET s == [th[t] EXCEPT !.resp = r.status, !.grant = NoGrant]
       IN  IF r.status = NetErr
           THEN /\ Step(t, AuthReturn(s, ErrAuthRequest))
                /\ UNCHANGED <<token, storedAt>>
           ELSE IF r.status # StatusOK
           THEN /\ Step(t, AuthReturn(s, ErrAuthStatus))
                /\ UNCHANGED <<token, storedAt>>
           ELSE IF r.body = "garbage"
           THEN /\ Step(t, AuthReturn(s, ErrAuthDecode))
                /\ UNCHANGED <<token, storedAt>>
           ELSE /\ Granted(th[t], issued) <= MaxIssued
                /\ token' = NewToken(Granted(th[t], issued), r.body, now)
                /\ storedAt' = now
                /\ Critical(t, "tokenLock", AuthReturn(s, ErrNil))
    /\ issued' = IF token' # token /\ th[t].grant = NoGrant THEN issued + 1 ELSE issued
    /\ UNCHANGED <<installKey, now, nextKey, registered, device>>

\* ----------------------------------------------------------- refreshToken
\* mutant of RefreshEntry: the empty refresh token is not checked
RefreshEntry_NoCheck(s, tok) ==
    [s EXCEPT !.pc = "refreshToken_key", !.refreshToken = tok.RefreshToken]

\* client.go:190-200: read the refresh token of c.token
RefreshEntry(s, tok) ==
    LET r == IF tok # NoToken THEN tok.RefreshToken ELSE Empty
    IN  IF r = Empty
        THEN [s EXCEPT !.pc = "authenticate", !.ensure = "delegate"]
        ELSE [s EXCEPT !.pc = "refreshToken_key", !.refreshToken = r]

refreshToken(t) ==
    /\ th[t].pc = "refreshToken"
    /\ Critical(t, "tokenLock", RefreshEntry(th[t], token))
    /\ UNCHANGED <<installKey, token, now, nextKey, issued, registered, storedAt, device>>

\* client.go:202-241: read c.installKey, sign and send /auth/refreshtoken
refreshToken_key(t) ==
    /\ th[t].pc = "refreshToken_key"
    /\ IF installKey = NoKey
       THEN Critical(t, "keyLock", [th[t] EXCEPT !.pc = "authenticate", !.refreshToken = Empty,
                                  !.ensure = "delegate"])
       ELSE \E signOK \in BOOLEAN :
               IF signOK
               THEN Critical(t, "keyLock", [th[t] EXCEPT !.pc = "refresh", !.installKey = installKey,
                                          !.signed = TRUE, !.resp = NoResp])
               ELSE Critical(t, "keyLock", EnsureReturn(th[t], ErrSign))
    /\ UNCHANGED <<installKey, token, now, nextKey, issued, registered, storedAt, device>>

\* mutant of RefreshStep: a non-200 answer fails the refresh, no fallback
RefreshStep_NoFallback(s, r) ==
    IF r.status = NetErr \/ r.status # StatusOK
    THEN EnsureReturn(s, ErrRefreshRequest)
    ELSE IF r.body = "garbage"
    THEN EnsureReturn(s, ErrRefreshDecode)
    ELSE EnsureReturn(s, ErrNil)

\* client.go:238-266: the answer r to /auth/refreshtoken, up to the write of
\* c.token
RefreshStep(s, r) ==
    IF r.status = NetErr
    THEN EnsureReturn(s, ErrRefreshRequest)
    ELSE IF r.status # StatusOK
    THEN [s EXCEPT !.pc = "authenticate", !.ensure = "fallback",
                   !.installKey = NoKey, !.refreshToken = Empty, !.signed = FALSE]
    ELSE IF r.body = "garbage"
    THEN EnsureReturn(s, ErrRefreshDecode)
    ELSE EnsureReturn(s, ErrNil)

refresh(t, r) ==
    /\ th[t].pc = "refresh"
    /\ r \in Answers(th[t])
    /\ LET s == RefreshStep([th[t] EXCEPT !.resp = r.status, !.grant = NoGrant], r)
       IN  /\ Critical(t, "tokenLock", s)
           /\ IF s.pc = "exec_token"
              THEN /\ Granted(th[t], issued) <= MaxIssued
                   /\ token' = NewToken(Granted(th[t], issued), r.body, now)
                   /\ storedAt' = now
              ELSE UNCHANGED <<token, storedAt>>
    /\ issued' = IF token' # token /\ th[t].grant = NoGrant THEN issued + 1 ELSE issued
    /\ UNCHANGED <<installKey, now, nextKey, registered, device>>

\* ------------------------------------------------------- ensureValidToken
\* mutant of EnsureStep: a missing token is taken for a valid one
EnsureStep_SkipMissing(s, tok, time) ==
    IF tok # NoToken /\ NeedsRefresh(tok, time)
    THEN [s EXCEPT !.pc = "refreshToken", !.authCaller = "ensureValidToken",
                   !.ensure = "refreshToken"]
    ELSE EnsureReturn([s EXCEPT !.ensure = "noop"], ErrNil)

\* client.go:268-284
EnsureStep(s, tok, time) ==
    IF tok = NoToken
    THEN [s EXCEPT !.pc = "authenticate", !.authCaller = "ensureValidToken",
                   !.ensure = "authenticate"]
    ELSE IF NeedsRefresh(tok, time)
    THEN [s EXCEPT !.pc = "refreshToken", !.authCaller = "ensureValidToken",
                   !.ensure = "refreshToken"]
    ELSE EnsureReturn([s EXCEPT !.ensure = "noop"], ErrNil)

ensureValidToken(t) ==
    /\ th[t].pc = "ensureValidToken"
    /\ Critical(t, "tokenLock", EnsureStep(th[t], token, now))
    /\ UNCHANGED <<installKey, token, now, nextKey, issued, registered, storedAt, device>>

\* ---------------------------------------- doAuthenticatedRequestWithRetry
\* client.go:311-313: accessToken := c.token.AccessToken, a nil dereference
\* when c.token is nil
exec_token(t) ==
    /\ th[t].pc = "exec_token"
    /\ IF token = NoToken
       THEN Critical(t, "tokenLock", [th[t] EXCEPT !.pc = "panic"])
       ELSE Critical(t, "tokenLock", [th[t] EXCEPT !.pc = "exec_key", !.accessToken = token.AccessToken,
                                  !.ensure = "ok"])
    /\ UNCHANGED <<installKey, token, now, nextKey, issued, registered, storedAt, device>>

\* client.go:318-332: read c.installKey, add the signature headers when
\* there is a key and GenerateExtraHeaders succeeded, send the request
exec_key(t) ==
    /\ th[t].pc = "exec_key"
    /\ \E signOK \in BOOLEAN :
         Critical(t, "keyLock", [th[t] EXCEPT !.pc = "target", !.installKey = installKey,
                               !.signed = (installKey # NoKey /\ signOK),
                               !.resp = NoResp])
    /\ UNCHANGED <<installKey, token, now, nextKey, issued, registered, storedAt, device>>

\* mutant of TargetStep: a 500 is handled like a 401
TargetStep_RetryServerError(s, st) ==
    IF st = NetErr
    THEN ExecReturn([s EXCEPT !.accessToken = 0], ErrTransport)
    ELSE IF st \in {StatusUnauthorized, ServerError} /\ s.allowRetry
    THEN [s EXCEPT !.pc = "authenticate", !.authCaller = "retry",
                   !.installKey = NoKey, !.signed = FALSE]
    ELSE ExecReturn([s EXCEPT !.accessToken = 0], ErrNil)

\* mutant of TargetStep: a 401 is retried whatever allowRetry says
TargetStep_RetryAlways(s, st) ==
    IF st = NetErr
    THEN ExecReturn([s EXCEPT !.accessToken = 0], ErrTransport)
    ELSE IF st = StatusUnauthorized
    THEN [s EXCEPT !.pc = "authenticate", !.authCaller = "retry",
                   !.installKey = NoKey, !.signed = FALSE]
    ELSE ExecReturn([s EXCEPT !.accessToken = 0], ErrNil)

\* client.go:332-348: the answer st to the target request
TargetStep(s, st) ==
    IF st = NetErr
    THEN ExecReturn([s EXCEPT !.accessToken = 0], ErrTransport)
    ELSE IF st = StatusUnauthorized /\ s.allowRetry
    THEN [s EXCEPT !.pc = "authenticate", !.authCaller = "retry",
                   !.installKey = NoKey, !.signed = FALSE]
    ELSE ExecReturn([s EXCEPT !.accessToken = 0], ErrNil)

\* mutant of target: the 401 handler clears c.token before authenticate
target_Discard(t, st) ==
    /\ th[t].pc = "target"
    /\ Step(t, TargetStep([th[t] EXCEPT !.targets = Append(@, st), !.resp = st], st))
    /\ token' = IF st = StatusUnauthorized /\ th[t].allowRetry THEN NoToken ELSE token
    /\ UNCHANGED <<installKey, now, nextKey, issued, registered, storedAt, device>>

target(t, st) ==
    /\ th[t].pc = "target"
    /\ Step(t, TargetStep([th[t] EXCEPT !.targets = Append(@, st), !.resp = st], st))
    /\ UNCHANGED <<installKey, token, now, nextKey, issued, registered, storedAt, device>>

\* ------------------------------------- callers of doAuthenticatedRequest
\* The caller looks at what it got back.  client.go:351-353 Connect returns
\* the error of authenticate; 371-390 fetchMachineInfo checks status and body
\* and Connect goes on to fetchCurrentMode (361); 402-411 fetchCurrentMode
\* checks the status.
exec_ret(t, things) ==
    /\ th[t].pc = "exec_ret"
    /\ LET s == th[t]
       IN  CASE s.caller = "Connect" ->
                  Step(t, Done(s, s.err))
             [] s.caller = "fetchMachineInfo" ->
                  IF s.err # ErrNil
                  THEN Step(t, Done(s, s.err))
                  ELSE IF s.resp # StatusOK
                  THEN Step(t, Done(s, ErrThings))
                  ELSE IF things = "garbage"
                  THEN Step(t, Done(s, ErrThingsDecode))
                  ELSE IF things = "empty"
                  THEN Step(t, Done(s, ErrNoMachines))
                  ELSE Step(t, EnterRequest(s, "fetchCurrentMode"))
             [] OTHER ->
                  IF s.err # ErrNil THEN Step(t, Done(s, s.err))
                  ELSE IF s.resp # StatusOK THEN Step(t, Done(s, ErrDashboard))
                  ELSE Step(t, Done(s, ErrNil))
    /\ UNCHANGED <<installKey, token, now, nextKey, issued, registered, storedAt, device>>

\* ------------------------------------------------------------------- time
Tick(i) ==
    /\ i > now
    /\ now' = i
    /\ UNCHANGED <<installKey, token, nextKey, issued, registered, storedAt, th, device>>

Next ==
    \/ \E t \in Threads : Connect(t)
    \/ \E t \in Threads : fetchCurrentMode(t)
    \/ \E t \in Threads : authenticate(t)
    \/ \E t \in Threads : \E st \in InitStatuses : registerClient(t, st)
    \/ \E t \in Threads : authenticate_reread(t)
    \/ \E t \in Threads : \E r \in AuthResponses : signin(t, r)
    \/ \E t \in Threads : refreshToken(t)
    \/ \E t \in Threads : refreshToken_key(t)
    \/ \E t \in Threads : \E r \in AuthResponses : refresh(t, r)
    \/ \E t \in Threads : ensureValidToken(t)
    \/ \E t \in Threads : exec_token(t)
    \/ \E t \in Threads : exec_key(t)
    \/ \E t \in Threads : \E st \in TargetStatuses : target(t, st)
    \/ \E t \in Threads : \E b \in ThingsBodies : exec_ret(t, b)
    \/ \E i \in Instants : Tick(i)

\* Two goroutines in the session manager and the executor; every answer is
\* issued as it arrives.
Spec == Init /\ [][Next]_vars

\* ============================================================ machine data
\* Weights are counted in hundredths of a gram.  The weights the command
\* handlers pass to SetDose: one with a whole number of tenths, one without.
Weights == {1620, 1857}

\* Lists of devices a /things answer can hold (client.go:380-390).
ThingsLists == {<<>>, <<"LM0001">>, <<"LM0002", "LM0003">>}

\* Dashboard bodies as json.Unmarshal hands them over.  valid = FALSE is a
\* body json.Unmarshal rejects.  An optional value is a sequence: <<>> when
\* the key is missing or holds a value of another type (the type assertion
\* that reads it fails either way), <<v>> when it holds v; an optional string
\* is "absent" in the same cases.  Timestamps are in milliseconds.
\*
\* A widget: output = FALSE is an output that is not an object; dose1 and
\* dose2 are output.doses.Dose1.dose and output.doses.Dose2.dose.  A widget
\* with code "" also stands for a list element that is not an object.
Widget(code) ==
    [code |-> code, output |-> TRUE, status |-> "absent", mode |-> "absent",
     dose1 |-> <<>>, dose2 |-> <<>>, remainingSeconds |-> <<>>,
     readyStartTime |-> <<>>, connected |-> <<>>, batteryLevel |-> <<>>]

\* time.Time.UnixMilli of an instant of the model's clock, which counts minutes
UnixMilli(i) == i * 60000

BasePayload ==
    [valid |-> TRUE, connected |-> <<TRUE>>, direct |-> "absent",
     widgets |->
        << [Widget("CMMachineStatus") EXCEPT !.status = "PoweredOn"],
           [Widget("CMBrewByWeightDoses") EXCEPT !.mode = "Dose1",
                                                 !.dose1 = <<1500>>,
                                                 !.dose2 = <<3400>>],
           [Widget("CMCoffeeBoiler") EXCEPT !.status = "Ready",
                                            !.remainingSeconds = <<0>>,
                                            !.readyStartTime = <<0>>],
           [Widget("ThingScale") EXCEPT !.connected = <<TRUE>>,
                                        !.batteryLevel = <<80>>] >>]

\* the scale's battery level alone differs from BasePayload
BatteryPayload == [BasePayload EXCEPT !.widgets[4].batteryLevel = <<79>>]

\* the boiler is heating and will be ready half a second after minute 57
HeatingPayload ==
    [BasePayload EXCEPT
        !.widgets[3].status = "Heating",
        !.widgets[3].readyStartTime =
            <<UnixMilli(ValidityWindow - RefreshMargin + 2) + 500>>]

\* the first dose is zero, the boiler widget and the scale widget are missing
BarePayload ==
    [BasePayload EXCEPT
        !.widgets = << BasePayload.widgets[1],
                       [BasePayload.widgets[2] EXCEPT !.dose1 = <<0>>] >>]

\* machine in standby, no mode in the doses widget, a top-level mode
StandbyPayload ==
    [BasePayload EXCEPT !.widgets[1].status = "StandBy",
                        !.widgets[2].mode = "absent",
                        !.direct = "dose2"]

Payloads ==
    {BasePayload, BatteryPayload, HeatingPayload, BarePayload, StandbyPayload,
     [BasePayload EXCEPT !.valid = FALSE]}

\* types.go:26-37
ParseDoseMode(m) ==
    CASE m \in {"Dose1", "dose1"} -> "Dose1"
      [] m \in {"Dose2", "dose2"} -> "Dose2"
      [] OTHER -> "Continuous"

\* mutant of extractDose: every weight but zero is taken
extractDose_NonZero(found, d) ==
    IF Len(d) = 1 /\ d[1] # 0 THEN d[1] ELSE found

\* client.go:515 and 520: the dose a doses widget gives, or the one found so far
extractDose(found, d) ==
    IF Len(d) = 1 /\ d[1] > 0 THEN d[1] ELSE found

\* mutant of extractBoiler: the countdown of the widget wins over its time
\* of readiness
extractBoiler_Explicit(w, ms) ==
    [Ready |-> (w.status = "Ready"),
     RemainingSeconds |->
        IF Len(w.remainingSeconds) = 1 THEN w.remainingSeconds[1]
        ELSE IF /\ Len(w.readyStartTime) = 1
                /\ w.readyStartTime[1] > 0
                /\ w.readyStartTime[1] > ms
        THEN (w.readyStartTime[1] - ms) \div 1000
        ELSE 0]

\* client.go:531-547: the BoilerInfo of a boiler widget read at ms, the
\* clock in milliseconds
extractBoiler(w, ms) ==
    [Ready |-> (w.status = "Ready"),
     RemainingSeconds |->
        IF /\ Len(w.readyStartTime) = 1
           /\ w.readyStartTime[1] > 0
           /\ w.readyStartTime[1] > ms
        THEN (w.readyStartTime[1] - ms) \div 1000
        ELSE IF Len(w.remainingSeconds) = 1 THEN w.remainingSeconds[1] ELSE 0]

\* client.go:554-563: the ScaleInfo of a scale widget
extractScale(w) ==
    [Connected |-> (w.connected = <<TRUE>>),
     BatteryLevel |-> IF Len(w.batteryLevel) = 1 THEN w.batteryLevel[1] ELSE 0]

\* mutant of extractWidget: the status widget can only switch the machine on
extractWidget_OnOnly(result, w, ms) ==
    IF ~w.output THEN result
    ELSE CASE w.code = "CMMachineStatus" ->
                IF w.status # "absent"
                THEN [result EXCEPT !.machineOn = @ \/ (w.status = "PoweredOn")]
                ELSE result
           [] w.code \in {"CMBrewByWeightDoses", "BrewByWeightDoses"} ->
                [result EXCEPT
                    !.mode = IF w.mode # "absent" THEN ParseDoseMode(w.mode) ELSE @,
                    !.dose1 = extractDose(@, w.dose1),
                    !.dose2 = extractDose(@, w.dose2)]
           [] w.code \in {"CMCoffeeBoiler", "CMBoilerStatus"} ->
                [result EXCEPT !.boiler = extractBoiler(w, ms)]
           [] w.code = "ThingScale" ->
                [result EXCEPT !.scale = extractScale(w)]
           [] OTHER -> result

\* client.go:486-566: one pass of the loop over the widgets
extractWidget(result, w, ms) ==
    IF ~w.output THEN result
    ELSE CASE w.code = "CMMachineStatus" ->
                IF w.status # "absent"
                THEN [result EXCEPT !.machineOn = (w.status = "PoweredOn")]
                ELSE result
           [] w.code \in {"CMBrewByWeightDoses", "BrewByWeightDoses"} ->
                [result EXCEPT
                    !.mode = IF w.mode # "absent" THEN ParseDoseMode(w.mode) ELSE @,
                    !.dose1 = extractDose(@, w.dose1),
                    !.dose2 = extractDose(@, w.dose2)]
           [] w.code \in {"CMCoffeeBoiler", "CMBoilerStatus"} ->
                [result EXCEPT !.boiler = extractBoiler(w, ms)]
           [] w.code = "ThingScale" ->
                [result EXCEPT !.scale = extractScale(w)]
           [] OTHER -> result

\* client.go:485-567: the loop over the widgets, in the order of the list
RECURSIVE extractWidgets(_, _, _)
extractWidgets(result, ws, ms) ==
    IF ws = <<>> THEN result
    ELSE extractWidgets(extractWidget(result, Head(ws), ms), Tail(ws), ms)

\* client.go:470-577, read at time, an instant of the model's clock
extractDataFromDashboard(p, time) ==
    IF ~p.valid THEN NoData
    ELSE LET top == [NoData EXCEPT !.machineOn = (p.connected = <<TRUE>>)]
             result == extractWidgets(top, p.widgets, UnixMilli(time))
         IN  IF result.mode = "Continuous" /\ p.direct # "absent"
             THEN [result EXCEPT !.mode = ParseDoseMode(p.direct)]
             ELSE result

\* mutant of changed: the scale is left out of the comparison
changed_NoScale(old, data) ==
    \/ old.mode # data.mode
    \/ old.machineOn # data.machineOn
    \/ data.dose1 # NoDose /\ old.dose1 # data.dose1
    \/ data.dose2 # NoDose /\ old.dose2 # data.dose2
    \/ data.boiler # NoBoiler /\ old.boiler # data.boiler

\* client.go:438-451: changed, from the old fields and the new data
changed(old, data) ==
    \/ old.mode # data.mode
    \/ old.machineOn # data.machineOn
    \/ data.dose1 # NoDose /\ old.dose1 # data.dose1
    \/ data.dose2 # NoDose /\ old.dose2 # data.dose2
    \/ data.boiler # NoBoiler /\ old.boiler # data.boiler
    \/ data.scale # NoScale /\ old.scale # data.scale

\* mutant of Return: StartPolling returns when fetchCurrentMode fails
Return_StopOnError(s, e) ==
    IF s.op = "StartPolling"
    THEN IF e # ErrNil THEN [Idle EXCEPT !.pc = "returned"]
         ELSE [Idle EXCEPT !.pc = "select", !.op = "StartPolling", !.ret = e]
    ELSE [Idle EXCEPT !.ret = e]

\* An operation on the machine data returns e: StartPolling logs it and
\* waits for the next tick (client.go:724-727), other callers are done.
Return(s, e) ==
    IF s.op = "StartPolling"
    THEN [Idle EXCEPT !.pc = "select", !.op = "StartPolling", !.ret = e]
    ELSE [Idle EXCEPT !.ret = e]

\* mutant of PollStep: a body that is no JSON is an error
PollStep_Strict(s, old, readOK, p, time) ==
    IF s.err # ErrNil THEN [data |-> old, th |-> Return(s, s.err)]
    ELSE IF s.resp # StatusOK THEN [data |-> old, th |-> Return(s, ErrDashboard)]
    ELSE IF ~readOK \/ ~p.valid THEN [data |-> old, th |-> Return(s, ErrDashboardRead)]
    ELSE LET data == extractDataFromDashboard(p, time)
         IN  [data |-> data,
              th |-> IF changed(old, data) THEN [s EXCEPT !.pc = "notify"]
                     ELSE Return(s, ErrNil)]

\* mutant of PollStep: a failed answer clears the machine data
PollStep_Clear(s, old, readOK, p, time) ==
    IF s.err # ErrNil THEN [data |-> NoData, th |-> Return(s, s.err)]
    ELSE IF s.resp # StatusOK THEN [data |-> NoData, th |-> Return(s, ErrDashboard)]
    ELSE IF ~readOK THEN [data |-> NoData, th |-> Return(s, ErrDashboardRead)]
    ELSE LET data == extractDataFromDashboard(p, time)
         IN  [data |-> data,
              th |-> IF changed(old, data) THEN [s EXCEPT !.pc = "notify"]
                     ELSE Return(s, ErrNil)]

\* client.go:402-459: fetchCurrentMode with the answer to its request: the
\* machine data afterwards and where the goroutine goes
PollStep(s, old, readOK, p, time) ==
    IF s.err # ErrNil THEN [data |-> old, th |-> Return(s, s.err)]
    ELSE IF s.resp # StatusOK THEN [data |-> old, th |-> Return(s, ErrDashboard)]
    ELSE IF ~readOK THEN [data |-> old, th |-> Return(s, ErrDashboardRead)]
    ELSE LET data == extractDataFromDashboard(p, time)
         IN  [data |-> data,
              th |-> IF changed(old, data) THEN [s EXCEPT !.pc = "notify"]
                     ELSE Return(s, ErrNil)]

fetchCurrentMode_ret(t, readOK, p) ==
    /\ th[t].pc = "exec_ret"
    /\ th[t].caller = "fetchCurrentMode"
    /\ LET r == PollStep(th[t], snapshot, readOK, p, now)
       IN  /\ snapshot' = r.data
           /\ IF r.th.pc # "notify" /\ r.th.ret # ErrNil
              THEN Step(t, r.th)
              ELSE Critical(t, "modeLock", r.th)
    /\ UNCHANGED <<session, now, dashboard, wiring, proof, sig, serial, vendor, tick, stop>>

\* client.go:689-710: GetStatus copies the machine data and tells whether a
\* token is stored
GetStatus ==
    [mode |-> snapshot.mode, dose1 |-> snapshot.dose1, dose2 |-> snapshot.dose2,
     machineOn |-> snapshot.machineOn, boiler |-> snapshot.boiler,
     scale |-> snapshot.scale, connected |-> token # NoToken]

\* part_004:22-34: publishStatus puts the status on the status topic
publishStatus(status) ==
    published' = [status |-> status, seq |-> 1 - published.seq]

\* a select with a send and an empty default (web.go:64-68, 289-293): the
\* value is put into the channel if it has room, and left out if it has none
Offer(ch, x, size) ==
    IF Len(ch) < size THEN Append(ch, x) ELSE ch

\* web.go:63-69: onStatusChange of the web server offers the status to
\* statusChan
onStatusChange_web(status) ==
    web' = [web EXCEPT !.statusChan = Offer(@, status, StatusChanSize),
                       !.dropped = Len(web.statusChan) >= StatusChanSize]

\* the call c.onStatusChange(status) of client.go:713-715
callback(status) ==
    CASE onStatusChange = "publishStatus" ->
             publishStatus(status) /\ UNCHANGED web
      [] onStatusChange = "web" ->
             onStatusChange_web(status) /\ UNCHANGED published
      [] OTHER -> UNCHANGED <<published, web>>

\* client.go:712-716 and 689-710: the callback gets GetStatus(), the machine
\* data as they are when it is called; then the operation returns nil
notifyStatusChange(t) ==
    /\ th[t].pc = "notify"
    /\ Critical(t, "modeLock", [Return(th[t], ErrNil) EXCEPT !.notified = TRUE])
    /\ callback(GetStatus)
    /\ UNCHANGED <<session, now, machine, onStatusChange, app, mq, rw>>

\* client.go:579-588: SetMode(mode) sends the command
SetModeCall(s, m) == [EnterRequest(s, "SetMode") EXCEPT !.mode = m]

SetMode(t, m) ==
    /\ th[t].pc = "idle"
    /\ Step(t, SetModeCall(th[t], m))
    /\ UNCHANGED <<session, now, device>>

\* mutant of ModeStep: the mode is stored whatever the answer was
ModeStep_Always(s, old) ==
    IF s.err # ErrNil THEN [data |-> [old EXCEPT !.mode = s.mode], th |-> Return(s, s.err)]
    ELSE IF s.resp \notin {StatusOK, StatusAccepted}
    THEN [data |-> [old EXCEPT !.mode = s.mode], th |-> Return(s, ErrSetMode)]
    ELSE [data |-> [old EXCEPT !.mode = s.mode], th |-> [s EXCEPT !.pc = "notify"]]

\* client.go:588-603: SetMode with the answer to its command
ModeStep(s, old) ==
    IF s.err # ErrNil THEN [data |-> old, th |-> Return(s, s.err)]
    ELSE IF s.resp \notin {StatusOK, StatusAccepted}
    THEN [data |-> old, th |-> Return(s, ErrSetMode)]
    ELSE [data |-> [old EXCEPT !.mode = s.mode], th |-> [s EXCEPT !.pc = "notify"]]

SetMode_ret(t) ==
    /\ th[t].pc = "exec_ret"
    /\ th[t].caller = "SetMode"
    /\ LET r == ModeStep(th[t], snapshot)
       IN  /\ snapshot' = r.data
           /\ IF r.th.pc = "notify" THEN Critical(t, "modeLock", r.th) ELSE Step(t, r.th)
    /\ UNCHANGED <<session, now, dashboard, wiring, proof, sig, serial, vendor, tick, stop>>

\* mutant of RoundWeight: rounding to the nearest tenth
RoundWeight_Nearest(w) == ((w + 5) \div 10) * 10

\* client.go:624: float64(int(weight*10)) / 10, for a weight that is not
\* negative
RoundWeight(w) == (w \div 10) * 10

\* client.go:612-621: a dose that is nil is sent as 0.0
DoseValue(d) == IF d = NoDose THEN 0 ELSE d

\* client.go:607-647: SetDose(doseId, weight) reads both doses under the read
\* lock, replaces the one it sets and sends both
SetDoseCall(s, id, w, data) ==
    LET r == RoundWeight(w)
    IN  [EnterRequest(s, "SetDose") EXCEPT
            !.doseId = id, !.weight = w, !.roundedWeight = r,
            !.dose1Val = IF id = "Dose1" THEN r ELSE DoseValue(data.dose1),
            !.dose2Val = IF id = "Dose2" THEN r ELSE DoseValue(data.dose2)]

SetDose(t, id, w) ==
    /\ th[t].pc = "idle"
    /\ Critical(t, "modeLock", SetDoseCall(th[t], id, w, snapshot))
    /\ UNCHANGED <<session, now, device>>

\* client.go:640-661: SetDose with the answer to its command
DoseStep(s, old) ==
    IF s.err # ErrNil THEN [data |-> old, th |-> Return(s, s.err)]
    ELSE IF s.resp \notin {StatusOK, StatusAccepted}
    THEN [data |-> old, th |-> Return(s, ErrSetDose)]
    ELSE [data |-> IF s.doseId = "Dose1" THEN [old EXCEPT !.dose1 = s.roundedWeight]
                   ELSE [old EXCEPT !.dose2 = s.roundedWeight],
          th |-> [s EXCEPT !.pc = "notify"]]

SetDose_ret(t) ==
    /\ th[t].pc = "exec_ret"
    /\ th[t].caller = "SetDose"
    /\ LET r == DoseStep(th[t], snapshot)
       IN  /\ snapshot' = r.data
           /\ IF r.th.pc = "notify" THEN Critical(t, "modeLock", r.th) ELSE Step(t, r.th)
    /\ UNCHANGED <<session, now, dashboard, wiring, proof, sig, serial, vendor, tick, stop>>

\* What doAuthenticatedRequest hands back to its caller: a transport or
\* session error without an answer, or the answer of the vendor service.
Outcomes ==
    {[err |-> e, resp |-> NoResp] : e \in {ErrTransport, ErrAuthStatus}}
    \cup {[err |-> ErrNil, resp |-> st] :
             st \in {StatusOK, StatusAccepted, StatusUnauthorized, ServerError}}

\* client.go:286-288 with the session manager and the executor reduced to
\* the outcome; the vendor service has applied a dose command it answers
\* with 200 or 202.
doAuthenticatedRequest(t, out) ==
    /\ th[t].pc = "ensureValidToken"
    /\ Step(t, [ExecReturn(th[t], out.err) EXCEPT !.resp = out.resp])
    /\ vendor' = IF th[t].caller = "SetDose" /\ out.resp \in {StatusOK, StatusAccepted}
                 THEN <<th[t].dose1Val, th[t].dose2Val>>
                 ELSE vendor
    /\ UNCHANGED <<session, now, dashboard, wiring, proof, sig, serial, snapshot, tick, stop>>

SyncNext ==
    \/ fetchCurrentMode("poller")
    \/ \E m \in DoseModes : SetMode("main", m)
    \/ \E id \in {"Dose1", "Dose2"} : \E w \in Weights : SetDose("main", id, w)
    \/ \E t \in Threads : \E out \in Outcomes : doAuthenticatedRequest(t, out)
    \/ \E readOK \in BOOLEAN : \E p \in Payloads : fetchCurrentMode_ret("poller", readOK, p)
    \/ SetMode_ret("main")
    \/ SetDose_ret("main")
    \/ \E t \in Threads : notifyStatusChange(t)

\* A command handler in SetMode and SetDose while StartPolling is in
\* fetchCurrentMode.
SyncSpec == Init /\ [][SyncNext]_vars

DoseNext ==
    \/ \E t \in Threads : \E id \in {"Dose1", "Dose2"} : \E w \in Weights : SetDose(t, id, w)
    \/ \E t \in Threads : \E out \in Outcomes : doAuthenticatedRequest(t, out)
    \/ \E t \in Threads : SetDose_ret(t)
    \/ \E t \in Threads : notifyStatusChange(t)

\* Two command handlers in SetDose (every command runs in a goroutine of its
\* own).
DoseSpec == Init /\ [][DoseNext]_vars

\* ------------------------------------------------------------ StartPolling
\* part_004:236: go client.StartPolling(interval, stopPolling); client.go:
\* 718-722 the goroutine creates its ticker and waits in the select
StartPolling(t) ==
    /\ t = "poller"
    /\ th[t].pc = "idle"
    /\ Step(t, [Idle EXCEPT !.pc = "select", !.op = "StartPolling"])
    /\ UNCHANGED <<session, now, device>>

\* time.Ticker: a tick is put into ticker.C, which holds at most one
ticker ==
    /\ ~tick
    /\ tick' = TRUE
    /\ UNCHANGED <<session, now, dashboard, wiring, proof, sig, th, serial, snapshot, vendor, stop>>

\* part_004:257: close(stopPolling)
close ==
    /\ ~stop
    /\ stop' = TRUE
    /\ UNCHANGED <<session, now, dashboard, wiring, proof, sig, th, serial, snapshot, vendor, tick>>

\* client.go:724-725: case <-ticker.C: c.fetchCurrentMode()
PollCase(s) == [EnterRequest(s, "fetchCurrentMode") EXCEPT !.op = "StartPolling"]

select_tick(t) ==
    /\ th[t].pc = "select"
    /\ tick
    /\ tick' = FALSE
    /\ Step(t, PollCase(th[t]))
    /\ UNCHANGED <<session, now, dashboard, wiring, proof, sig, serial, snapshot, vendor, stop>>

\* client.go:728-729: case <-stopCh: return
select_stop(t) ==
    /\ th[t].pc = "select"
    /\ stop
    /\ Step(t, [Idle EXCEPT !.pc = "returned"])
    /\ UNCHANGED <<session, now, device>>

PollNext ==
    \/ StartPolling("poller")
    \/ ticker
    \/ close
    \/ select_tick("poller")
    \/ select_stop("poller")
    \/ \E out \in Outcomes : doAuthenticatedRequest("poller", out)
    \/ \E readOK \in BOOLEAN : \E p \in Payloads : fetchCurrentMode_ret("poller", readOK, p)
    \/ notifyStatusChange("poller")
    \/ \E i \in Instants : Tick(i)

\* The goroutine of StartPolling alone.  Every request is answered (the
\* http.Client has a timeout, client.go:46-48), the goroutine keeps running,
\* and a select with several ready cases picks one at random, so a closed
\* stopCh that is offered again and again is taken in the end.
PollSpec ==
    /\ Init /\ [][PollNext]_vars
    /\ WF_vars(\E out \in Outcomes : doAuthenticatedRequest("poller", out))
    /\ WF_vars(\E readOK \in BOOLEAN : \E p \in Payloads :
                  fetchCurrentMode_ret("poller", readOK, p))
    /\ WF_vars(notifyStatusChange("poller"))
    /\ SF_vars(select_stop("poller"))

\* ------------------------------------------------------------------ Connect
\* client.go:351-353: Connect returns the error of authenticate
Connect_ret(t) ==
    /\ th[t].pc = "exec_ret"
    /\ th[t].caller = "Connect"
    /\ Step(t, Return(th[t], th[t].err))
    /\ UNCHANGED <<session, now, device>>

\* mutant of MachineStep: the last listed device is taken
MachineStep_Last(s, old, decodeOK, things) ==
    IF s.err # ErrNil THEN [serial |-> old, th |-> Return(s, s.err)]
    ELSE IF s.resp # StatusOK THEN [serial |-> old, th |-> Return(s, ErrThings)]
    ELSE IF ~decodeOK THEN [serial |-> old, th |-> Return(s, ErrThingsDecode)]
    ELSE IF Len(things) = 0 THEN [serial |-> old, th |-> Return(s, ErrNoMachines)]
    ELSE [serial |-> things[Len(things)],
          th |-> [EnterRequest(s, "fetchCurrentMode") EXCEPT !.op = "Connect"]]

\* client.go:371-396 and 355-361: fetchMachineInfo with the answer to its
\* request; when it returns nil Connect calls fetchCurrentMode
MachineStep(s, old, decodeOK, things) ==
    IF s.err # ErrNil THEN [serial |-> old, th |-> Return(s, s.err)]
    ELSE IF s.resp # StatusOK THEN [serial |-> old, th |-> Return(s, ErrThings)]
    ELSE IF ~decodeOK THEN [serial |-> old, th |-> Return(s, ErrThingsDecode)]
    ELSE IF Len(things) = 0 THEN [serial |-> old, th |-> Return(s, ErrNoMachines)]
    ELSE [serial |-> things[1],
          th |-> [EnterRequest(s, "fetchCurrentMode") EXCEPT !.op = "Connect"]]

fetchMachineInfo_ret(t, decodeOK, things) ==
    /\ th[t].pc = "exec_ret"
    /\ th[t].caller = "fetchMachineInfo"
    /\ LET r == MachineStep(th[t], serial, decodeOK, things)
       IN  /\ serial' = r.serial
           /\ Step(t, r.th)
    /\ UNCHANGED <<session, now, dashboard, wiring, proof, sig, snapshot, vendor, tick, stop>>

SeqNext ==
    \/ Connect("main")
    \/ \E id \in {"Dose1", "Dose2"} : SetDose("main", id, 1857)
    \/ authenticate("main")
    \/ \E st \in InitStatuses : registerClient("main", st)
    \/ authenticate_reread("main")
    \/ \E r \in AuthResponses : signin("main", r)
    \/ refreshToken("main")
    \/ refreshToken_key("main")
    \/ \E r \in AuthResponses : refresh("main", r)
    \/ ensureValidToken("main")
    \/ exec_token("main")
    \/ exec_key("main")
    \/ \E st \in TargetStatuses : target("main", st)
    \/ Connect_ret("main")
    \/ \E decodeOK \in BOOLEAN : \E l \in ThingsLists : fetchMachineInfo_ret("main", decodeOK, l)
    \/ \E readOK \in BOOLEAN : \E p \in {BasePayload, StandbyPayload} :
          fetchCurrentMode_ret("main", readOK, p)
    \/ SetDose_ret("main")
    \/ notifyStatusChange("main")
    \/ \E i \in Instants : Tick(i)

\* One goroutine through Connect and the dose commands, with the session
\* manager and the executor in full.
SeqSpec == Init /\ [][SeqNext]_vars

RaceNext ==
    \/ \E t \in Threads : fetchCurrentMode(t)
    \/ \E t \in Threads : authenticate(t)
    \/ \E t \in Threads : \E st \in InitStatuses : registerClient(t, st)
    \/ \E t \in Threads : authenticate_reread(t)
    \/ \E t \in Threads : \E body \in {"norefresh", "full"} : issue(t, body)
    \/ \E t \in Threads : \E r \in AuthResponses : signin(t, r)
    \/ \E t \in Threads : refreshToken(t)
    \/ \E t \in Threads : refreshToken_key(t)
    \/ \E t \in Threads : \E r \in AuthResponses : refresh(t, r)
    \/ \E t \in Threads : ensureValidToken(t)
    \/ \E t \in Threads : exec_token(t)
    \/ \E t \in Threads : exec_key(t)
    \/ \E t \in Threads : \E st \in {NetErr, StatusOK} : target(t, st)
    \/ \E t \in Threads : \E b \in ThingsBodies : exec_ret(t, b)
    \/ \E i \in Instants : Tick(i)

\* Two goroutines in fetchCurrentMode, with the session manager in full and
\* target requests that are not answered 401; the vendor service issues a
\* token pair when it handles the request, and the answer arrives later.
RaceSpec == Init /\ [][RaceNext]_vars

\* ------------------------------------------------------- command handlers
\* web.go:165: the dose range of the web API, 5 to 100 g
MinDose == 500
MaxDose == 10000

\* Weights a collaborator can ask for: around both ends of the range, two
\* inside it, and the 123 g of the spec's scenario.
AskedWeights == {0, 499, 500, 1855, 10000, 10001, 12300}

\* web.go:155-168: the doseId and the range the web handler accepts
ValidDose(id, w) == id \in {"Dose1", "Dose2"} /\ ~(w < MinDose \/ w > MaxDose)

\* web.go:148-177: POST /api/dose answers 400 or starts SetDose in a
\* goroutine
setDose(t, id, w) ==
    IF ValidDose(id, w)
    THEN SetDose(t, id, w)
    ELSE /\ th[t].pc = "idle"
         /\ Step(t, [Idle EXCEPT !.ret = ErrBadRequest])
         /\ UNCHANGED <<session, now, device>>

\* part_004:51-72, commands.go:16-28: an MQTT command with dose1 or dose2;
\* the goroutine of the command calls SetDose with the weight of the command
subscribeToCommands(t, id, w) ==
    /\ id \in {"Dose1", "Dose2"}
    /\ SetDose(t, id, w)

EntryNext ==
    \/ \E id \in {"Dose1", "Dose2", "Dose3"} : \E w \in AskedWeights : setDose("main", id, w)
    \/ \E id \in {"Dose1", "Dose2"} : \E w \in AskedWeights : subscribeToCommands("main", id, w)
    \/ \E out \in Outcomes : doAuthenticatedRequest("main", out)
    \/ SetDose_ret("main")
    \/ notifyStatusChange("main")

\* The dose commands of the web API and of MQTT, one at a time.
EntrySpec == Init /\ [][EntryNext]_vars

\* ======================================================== dashboard parsing
\* The widgets a dashboard body is built from here: every combination of the
\* values extractDataFromDashboard tells apart.
StatusWidgets ==
    {[Widget("CMMachineStatus") EXCEPT !.status = s, !.output = o] :
        s \in {"absent", "PoweredOn", "StandBy"}, o \in BOOLEAN}

DoseWidgets ==
    {[Widget("CMBrewByWeightDoses") EXCEPT !.mode = m, !.dose1 = a, !.dose2 = b] :
        m \in {"absent", "Dose1", "Dose2", "off"},
        a \in {<<>>, <<0>>, <<1850>>, <<-500>>},
        b \in {<<>>, <<0>>, <<3200>>}}

\* the countdown of 45 s, alone or with a time of readiness that lies 1.5 s
\* after minute 55 or 0.999 s after minute 56
BoilerWidgets ==
    {[Widget(c) EXCEPT !.status = s, !.remainingSeconds = r, !.readyStartTime = at] :
        c \in {"CMCoffeeBoiler"},
        s \in {"absent", "Ready", "Heating"},
        r \in {<<>>, <<45>>},
        at \in {<<>>, <<0>>, <<UnixMilli(ValidityWindow - RefreshMargin) + 1500>>,
                <<UnixMilli(ValidityWindow - RefreshMargin + 1) + 999>>}}

ScaleWidgets ==
    {[Widget("ThingScale") EXCEPT !.connected = c, !.batteryLevel = b] :
        c \in {<<>>, <<TRUE>>}, b \in {<<>>, <<80>>}}

\* the doses widget of the vendor's sample answer: mode Dose1, 18.5 g and 32 g
SampleDoses ==
    [Widget("CMBrewByWeightDoses") EXCEPT !.mode = "Dose1", !.dose1 = <<1850>>,
                                          !.dose2 = <<3200>>]

\* Widget lists: none, one widget, a status widget before and after another
\* widget, two status widgets, two doses widgets, and a widget with a code
\* the client does not know.
WidgetLists ==
    {<<>>, <<Widget("")>>, <<Widget("CMGroupStatus")>>}
    \cup {<<w>> : w \in StatusWidgets \cup DoseWidgets \cup BoilerWidgets \cup ScaleWidgets}
    \cup {<<s, SampleDoses>> : s \in StatusWidgets}
    \cup {<<SampleDoses, s>> : s \in StatusWidgets}
    \cup {<<s1, s2>> : s1 \in StatusWidgets, s2 \in StatusWidgets}
    \cup {<<SampleDoses, d>> : d \in DoseWidgets}

\* The dashboard bodies the vendor service answers with.
ParseBodies ==
    {NoBody}
    \cup {[valid |-> TRUE, connected |-> c, direct |-> d, widgets |-> ws] :
            c \in {<<>>, <<TRUE>>, <<FALSE>>}, d \in {"absent", "dose2"},
            ws \in WidgetLists}

ParseInit ==
    /\ Start
    /\ Unwired
    /\ dashboard \in ParseBodies
    /\ proof = NoProof
    /\ sig = NoSig

ParseNext ==
    \/ fetchCurrentMode("main")
    \/ \E out \in Outcomes : doAuthenticatedRequest("main", out)
    \/ fetchCurrentMode_ret("main", TRUE, dashboard)
    \/ notifyStatusChange("main")
    \/ \E i \in Instants : Tick(i)

\* One goroutine polls a machine whose dashboard body is any of ParseBodies.
ParseSpec == ParseInit /\ [][ParseNext]_vars

\* ============================================================ request proof
\* Bytes are 0..255.  Bit i of byte x, and the byte of eight bits.
Bit(x, i) == (x \div 2^i) % 2
Byte(f) == f[0] + 2 * f[1] + 4 * f[2] + 8 * f[3] + 16 * f[4] + 32 * f[5]
           + 64 * f[6] + 128 * f[7]

\* Go's ^, & and | on bytes
Xor(a, b) == Byte([i \in 0..7 |-> (Bit(a, i) + Bit(b, i)) % 2])
And(a, b) == Byte([i \in 0..7 |-> Bit(a, i) * Bit(b, i)])
Or(a, b) == Byte([i \in 0..7 |-> IF Bit(a, i) + Bit(b, i) > 0 THEN 1 ELSE 0])

\* Go's x << k and x >> k on a byte x: the bits shifted out are lost, and a
\* shift by 8 leaves 0
Shl(x, k) == (x * 2^k) % 256
Shr(x, k) == x \div 2^k

\* the length of base strings
MaxBase == 3

\* Bytes of a base string: two that meet in cell 1 ('a' and 'A'), one for
\* cell 0, one for cell 14 ('.') and one for cell 31, whose neighbour is cell 0.
BaseBytes == {0, 46, 65, 97, 255}
BaseStrings == UNION {[1..n -> BaseBytes] : n \in 0..MaxBase}

\* Secrets of 32 bytes, whose cells give every shift from 0 to 7, and one of
\* 31 bytes.
Secrets ==
    {[i \in 1..32 |-> (i * m + a) % 256] : m \in {0, 7, 37}, a \in {0, 255}}
    \cup {[i \in 1..31 |-> i]}

\* mutant of ProofStep: the byte is rotated before it is combined
ProofStep_RotateFirst(work, byteVal) ==
    LET idx == byteVal % 32
        shiftIdx == (idx + 1) % 32
        shiftAmount == And(work[shiftIdx + 1], 7)
        rotated == And(Or(Shl(byteVal, shiftAmount), Shr(byteVal, 8 - shiftAmount)), 255)
    IN  [work EXCEPT ![idx + 1] = Xor(rotated, work[idx + 1])]

\* commands.go:164-173: one pass of the loop; work[i + 1] here is the code's
\* work[i]
ProofStep(work, byteVal) ==
    LET idx == byteVal % 32
        shiftIdx == (idx + 1) % 32
        shiftAmount == And(work[shiftIdx + 1], 7)
        xorResult == Xor(byteVal, work[idx + 1])
        rotated == And(Or(Shl(xorResult, shiftAmount), Shr(xorResult, 8 - shiftAmount)), 255)
    IN  [work EXCEPT ![idx + 1] = rotated]

\* commands.go:153-162: a secret that has not 32 bytes is rejected, otherwise
\* work is a copy of it
GenerateRequestProof ==
    /\ proof.pc = "idle"
    /\ proof' = IF Len(proof.secret) # 32
                THEN [proof EXCEPT !.pc = "rejected"]
                ELSE [proof EXCEPT !.pc = "loop", !.work = proof.secret]
    /\ UNCHANGED <<session, now, th, serial, snapshot, vendor, tick, stop, dashboard, wiring, sig>>

\* commands.go:164-173: the loop takes the next byte of the base string
GenerateRequestProof_loop ==
    /\ proof.pc = "loop"
    /\ proof.done < Len(proof.baseString)
    /\ proof' = [proof EXCEPT !.work = ProofStep(@, proof.baseString[proof.done + 1]),
                              !.done = @ + 1]
    /\ UNCHANGED <<session, now, th, serial, snapshot, vendor, tick, stop, dashboard, wiring, sig>>

\* commands.go:175-177: the loop is over, the hash of work is returned
GenerateRequestProof_ret ==
    /\ proof.pc = "loop"
    /\ proof.done = Len(proof.baseString)
    /\ proof' = [proof EXCEPT !.pc = "hashed"]
    /\ UNCHANGED <<session, now, th, serial, snapshot, vendor, tick, stop, dashboard, wiring, sig>>

ProofInit ==
    /\ Start
    /\ Unwired
    /\ dashboard = NoBody
    /\ proof \in {[NoProof EXCEPT !.secret = sec, !.baseString = b] :
                    sec \in Secrets, b \in BaseStrings}
    /\ sig = NoSig

ProofNext ==
    \/ GenerateRequestProof
    \/ GenerateRequestProof_loop
    \/ GenerateRequestProof_ret

\* GenerateRequestProof on any of the secrets and base strings.
ProofSpec == ProofInit /\ [][ProofNext]_vars

\* ============================================================ DER signature
\* A big.Int is kept as its Bytes(): big-endian, no leading zero byte, <<>>
\* for 0.  The integers of a P-256 signature have up to 32 bytes.
KeyBytes == 32

\* r and s of ecdsa.Sign: of 1, 2, 31 and 32 bytes, with top bytes on both
\* sides of the sign bit
BigInts ==
    {[i \in 1..n |-> IF i = 1 THEN top ELSE fill] :
        n \in {1, 2, KeyBytes - 1, KeyBytes}, top \in {1, 127, 128, 255},
        fill \in {0, 255}}

\* mutant of LeadingZero: no byte is ever added
LeadingZero_Never(bytes) == bytes

\* commands.go:217-222: a zero byte goes before bytes whose high bit is set
LeadingZero(bytes) ==
    IF Len(bytes) > 0 /\ And(bytes[1], 128) # 0 THEN <<0>> \o bytes ELSE bytes

\* commands.go:212-232; byte(n) keeps the low 8 bits of n
encodeDERSignature(r, s) ==
    LET rBytes == LeadingZero(r)
        sBytes == LeadingZero(s)
        rPart == <<2, Len(rBytes) % 256>> \o rBytes
        sPart == <<2, Len(sBytes) % 256>> \o sBytes
        content == rPart \o sPart
    IN  <<48, Len(content) % 256>> \o content

\* What a DER decoder reads at the head of bytes as an INTEGER: tag 2, a
\* length in short form, that many content bytes in the shortest two's
\* complement form; value is the Bytes() of a non-negative integer.
ReadInteger(bytes) ==
    IF Len(bytes) < 3 \/ bytes[1] # 2 \/ bytes[2] = 0 \/ bytes[2] >= 128
       \/ Len(bytes) < 2 + bytes[2]
    THEN [ok |-> FALSE, value |-> <<>>, rest |-> <<>>]
    ELSE LET n == bytes[2]
             c == SubSeq(bytes, 3, 2 + n)
         IN  IF c[1] >= 128 \/ (n > 1 /\ c[1] = 0 /\ c[2] < 128)
             THEN [ok |-> FALSE, value |-> <<>>, rest |-> <<>>]
             ELSE [ok |-> TRUE,
                   value |-> IF c[1] = 0 THEN Tail(c) ELSE c,
                   rest |-> SubSeq(bytes, 3 + n, Len(bytes))]

\* What a DER decoder reads of der as SEQUENCE {INTEGER, INTEGER}: the pair,
\* or <<>> when der is not one.
ReadSignature(der) ==
    IF Len(der) < 2 \/ der[1] # 48 \/ der[2] >= 128 \/ der[2] # Len(der) - 2
    THEN <<>>
    ELSE LET first == ReadInteger(SubSeq(der, 3, Len(der)))
             second == ReadInteger(first.rest)
         IN  IF first.ok /\ second.ok /\ second.rest = <<>>
             THEN <<first.value, second.value>>
             ELSE <<>>

\* commands.go:200: GenerateExtraHeaders encodes the signature it has made
GenerateExtraHeaders_encode ==
    /\ sig.pc = "signed"
    /\ sig' = [sig EXCEPT !.der = encodeDERSignature(sig.r, sig.s), !.pc = "encoded"]
    /\ UNCHANGED <<session, now, th, serial, snapshot, vendor, tick, stop, dashboard, wiring, proof>>

\* the vendor service decodes the X-Request-Signature header it receives
\* (commands.go:201-207)
Decode ==
    /\ sig.pc = "encoded"
    /\ sig' = [sig EXCEPT !.read = ReadSignature(sig.der), !.pc = "read"]
    /\ UNCHANGED <<session, now, th, serial, snapshot, vendor, tick, stop, dashboard, wiring, proof>>

\* commands.go:194: ecdsa.Sign has returned r and s
DerInit ==
    /\ Start
    /\ Unwired
    /\ dashboard = NoBody
    /\ proof = NoProof
    /\ sig \in {[NoSig EXCEPT !.r = r, !.s = s, !.pc = "signed"] :
                    r \in BigInts, s \in BigInts}

DerNext ==
    \/ GenerateExtraHeaders_encode
    \/ Decode

\* A signature is encoded and decoded.
DerSpec == DerInit /\ [][DerNext]_vars

\* ------------------------------------------------------------- web server
\* what the web server's steps leave alone
client == <<session, now, th, machine, onStatusChange, published, app, mq, rw>>

\* mutant of CanLock: Lock does not wait for the readers
CanLock_IgnoreReaders(mu) == mu.writer = "none"

\* sync.RWMutex: Lock waits until nobody holds the mutex, RLock until no
\* writer does
CanLock(mu) == mu.writer = "none" /\ mu.readers = {}

CanRLock(mu) == mu.writer = "none"

\* web.go:42-61: NewWebServer makes statusChan, registers its onStatusChange
\* with the client (replacing the callback the client had, client.go:55-57)
\* and starts broadcastLoop
NewWebServer ==
    /\ ~web.started
    /\ web' = [web EXCEPT !.started = TRUE]
    /\ onStatusChange' = "web"
    /\ UNCHANGED <<session, now, th, machine, published, app, mq, rw>>

\* web.go:71-75: broadcastLoop takes the next status from statusChan and
\* calls broadcastStatus, which first waits for the read lock (web.go:288)
broadcastLoop ==
    /\ web.started
    /\ web.loop.pc = "range"
    /\ web.statusChan # <<>>
    /\ web' = [web EXCEPT !.statusChan = Tail(@),
                          !.loop = [pc |-> "RLock", status |-> Head(web.statusChan),
                                    todo |-> {}, skipped |-> {}]]
    /\ UNCHANGED client

\* web.go:288: sseClientsMu.RLock(); the range of 289 is over the registry
broadcastStatus_RLock ==
    /\ web.loop.pc = "RLock"
    /\ CanRLock(web.mu)
    /\ web' = [web EXCEPT !.mu.readers = @ \cup {"broadcastLoop"},
                          !.loop.pc = "send",
                          !.loop.todo = web.sseClients]
    /\ UNCHANGED client

\* mutant of SendTo: the send waits for room in the channel
SendTo_Blocking(c, status) ==
    /\ web.clients[c].pc # "closed" => Len(web.clients[c].channel) < ChannelSize
    /\ web' = [web EXCEPT
                 !.loop.todo = @ \ {c},
                 !.loop.skipped = @,
                 !.panic = @ \/ web.clients[c].pc = "closed",
                 !.clients[c].channel =
                     IF web.clients[c].pc = "closed" THEN @ ELSE Append(@, status)]

\* web.go:289-295: the message is offered to the channel of the client c; a
\* send on a closed channel panics
SendTo(c, status) ==
    web' = [web EXCEPT
              !.loop.todo = @ \ {c},
              !.panic = @ \/ web.clients[c].pc = "closed",
              !.loop.skipped = IF web.clients[c].pc # "closed"
                                  /\ Len(web.clients[c].channel) = ChannelSize
                               THEN @ \cup {c} ELSE @,
              !.clients[c].channel =
                  IF web.clients[c].pc = "closed" THEN @
                  ELSE Offer(@, status, ChannelSize)]

broadcastStatus_send(c) ==
    /\ web.loop.pc = "send"
    /\ c \in web.loop.todo
    /\ SendTo(c, web.loop.status)
    /\ UNCHANGED client

\* web.go:296: sseClientsMu.RUnlock(), and broadcastLoop is at its range again
broadcastStatus_RUnlock ==
    /\ web.loop.pc = "send"
    /\ web.loop.todo = {}
    /\ web' = [web EXCEPT !.mu.readers = @ \ {"broadcastLoop"}, !.loop = NoLoop]
    /\ UNCHANGED client

\* web.go:215-226: a browser opens the event stream; handleSSE makes the
\* channel of the connection and waits for the lock
handleSSE(c) ==
    /\ web.started
    /\ web.clients[c].pc = "none"
    /\ web' = [web EXCEPT !.clients[c].pc = "Lock"]
    /\ UNCHANGED client

\* web.go:226: sseClientsMu.Lock()
handleSSE_Lock(c) ==
    /\ web.clients[c].pc = "Lock"
    /\ CanLock(web.mu)
    /\ web' = [web EXCEPT !.mu.writer = c, !.clients[c].pc = "register"]
    /\ UNCHANGED client

\* web.go:227-231: the client is put into the registry, Unlock
handleSSE_register(c) ==
    /\ web.clients[c].pc = "register"
    /\ web' = [web EXCEPT !.sseClients = @ \cup {c}, !.mu.writer = "none",
                          !.clients[c].pc = "select"]
    /\ UNCHANGED client

\* web.go:256-264: case msg := <-channel; the message is written to the
\* response, and the handler returns if that fails
handleSSE_receive(c, writeOK) ==
    /\ web.clients[c].pc = "select"
    /\ web.clients[c].channel # <<>>
    /\ web' = [web EXCEPT !.clients[c].channel = Tail(@),
                          !.clients[c].pc = IF writeOK THEN "select" ELSE "defer"]
    /\ UNCHANGED client

\* web.go:265-266: case <-r.Context().Done(): return
handleSSE_Done(c) ==
    /\ web.clients[c].pc = "select"
    /\ web' = [web EXCEPT !.clients[c].pc = "defer"]
    /\ UNCHANGED client

\* web.go:246-248: the deferred function waits for the lock
handleSSE_defer_Lock(c) ==
    /\ web.clients[c].pc = "defer"
    /\ CanLock(web.mu)
    /\ web' = [web EXCEPT !.mu.writer = c, !.clients[c].pc = "close"]
    /\ UNCHANGED client

\* web.go:249-251: delete(ws.sseClients, clientID), close(channel), Unlock
handleSSE_defer_close(c) ==
    /\ web.clients[c].pc = "close"
    /\ web' = [web EXCEPT !.sseClients = @ \ {c}, !.mu.writer = "none",
                          !.clients[c] = [pc |-> "closed", channel |-> <<>>]]
    /\ UNCHANGED client

\* a status for the web server: SetMode("Dose1") that the vendor service
\* accepts
WebNext ==
    \/ NewWebServer
    \/ web.started /\ SetMode("main", "Dose1")
    \/ \E out \in {o \in Outcomes : o.resp = StatusOK} : doAuthenticatedRequest("main", out)
    \/ SetMode_ret("main")
    \/ notifyStatusChange("main")
    \/ broadcastLoop
    \/ broadcastStatus_RLock
    \/ \E c \in SseIds : broadcastStatus_send(c)
    \/ broadcastStatus_RUnlock
    \/ \E c \in SseIds : handleSSE(c)
    \/ \E c \in SseIds : handleSSE_Lock(c)
    \/ \E c \in SseIds : handleSSE_register(c)
    \/ \E c \in SseIds : \E writeOK \in BOOLEAN : handleSSE_receive(c, writeOK)
    \/ \E c \in SseIds : handleSSE_Done(c)
    \/ \E c \in SseIds : handleSSE_defer_Lock(c)
    \/ \E c \in SseIds : handleSSE_defer_close(c)

\* The web server with its event streams, and a command handler whose
\* SetMode notifies it.
WebSpec == Init /\ [][WebNext]_vars

QueueNext ==
    \/ NewWebServer
    \/ web.started /\ \E m \in {"Dose1", "Dose2"} : SetMode("main", m)
    \/ \E out \in {o \in Outcomes : o.resp = StatusOK} : doAuthenticatedRequest("main", out)
    \/ SetMode_ret("main")
    \/ notifyStatusChange("main")
    \/ broadcastLoop
    \/ broadcastStatus_RLock
    \/ broadcastStatus_RUnlock

\* The web server without event streams, and a command handler that sets
\* one mode or the other: statusChan holds statuses that differ.
QueueSpec == Init /\ [][QueueNext]_vars

\* ----------------------------------------------------------- main program
\* part_004:198: config.LoadConfig; enabled is cfg.Web.Enabled
LoadConfig(enabled) ==
    /\ app.pc = "LoadConfig"
    /\ app' = [app EXCEPT !.pc = "SetStatusChangeCallback", !.web = enabled]
    /\ UNCHANGED <<session, now, th, machine, onStatusChange, published, web, mq, rw>>

\* part_004:216 and client.go:55-57: client.SetStatusChangeCallback(publishStatus)
SetStatusChangeCallback ==
    /\ app.pc = "SetStatusChangeCallback"
    /\ onStatusChange' = "publishStatus"
    /\ app' = [app EXCEPT !.pc = "Connect"]
    /\ UNCHANGED <<session, now, th, machine, published, web, mq, rw>>

\* part_004:220-223 and client.go:350-363: client.Connect() with authenticate
\* and fetchMachineInfo reduced to their outcome: they fail and main returns,
\* or a token is stored and Connect goes on to fetchCurrentMode
main_Connect(ok) ==
    /\ app.pc = "Connect"
    /\ IF ok
       THEN /\ token' = NewToken(issued + 1, "full", now)
            /\ issued' = issued + 1
            /\ storedAt' = now
            /\ Step("main", [EnterRequest(Idle, "fetchCurrentMode") EXCEPT !.op = "Connect"])
            /\ app' = [app EXCEPT !.pc = "Connect_ret"]
       ELSE /\ app' = [app EXCEPT !.pc = "exit"]
            /\ UNCHANGED <<token, issued, storedAt, th>>
    /\ UNCHANGED <<installKey, nextKey, registered, now, machine, onStatusChange,
                   published, web, mq, rw>>

\* part_004:220-232: Connect has returned; with an error main returns, else
\* it publishes the status and subscribes to the command and trigger topics
main_publishStatus ==
    /\ app.pc = "Connect_ret"
    /\ th["main"].pc = "idle"
    /\ IF th["main"].ret # ErrNil
       THEN /\ app' = [app EXCEPT !.pc = "exit"]
            /\ UNCHANGED published
       ELSE /\ app' = [app EXCEPT !.pc = "StartPolling"]
            /\ publishStatus(GetStatus)
    /\ UNCHANGED <<session, now, th, machine, onStatusChange, web, mq, rw>>

\* part_004:235-236: go client.StartPolling(...)
main_StartPolling ==
    /\ app.pc = "StartPolling"
    /\ app' = [app EXCEPT !.pc = "web", !.polling = TRUE]
    /\ UNCHANGED <<session, now, th, machine, onStatusChange, published, web, mq, rw>>

\* part_004:239-251: with the web interface disabled, or NewWebServer done,
\* main waits for the quit signal
main_ready ==
    /\ app.pc = "web"
    /\ app.web => web.started
    /\ app' = [app EXCEPT !.pc = "quit"]
    /\ UNCHANGED <<session, now, th, machine, onStatusChange, published, web, mq, rw>>

\* the vendor service answers a request with 200, or the request fails
MainOutcomes == {o \in Outcomes : o.resp = StatusOK \/ o.err = ErrTransport}

MainNext ==
    \/ \E enabled \in BOOLEAN : LoadConfig(enabled)
    \/ SetStatusChangeCallback
    \/ \E ok \in BOOLEAN : main_Connect(ok)
    \/ main_publishStatus
    \/ main_StartPolling
    \/ app.polling /\ StartPolling("poller")
    \/ app.pc = "web" /\ app.web /\ NewWebServer
    \/ main_ready
    \/ app.pc = "quit" /\ close
    \/ ticker
    \/ select_tick("poller")
    \/ select_stop("poller")
    \/ \E t \in Threads : \E out \in MainOutcomes : doAuthenticatedRequest(t, out)
    \/ \E t \in Threads : \E p \in {BasePayload, StandbyPayload} :
          fetchCurrentMode_ret(t, TRUE, p)
    \/ \E t \in Threads : notifyStatusChange(t)

\* The main program from its configuration to the quit signal, with the
\* poller and the web server it starts; the machine is switched on and off
\* between the polls.  What the web server does with the statuses it is
\* given is left to WebSpec and QueueSpec.
MainSpec == Init /\ [][MainNext]_vars

\* ----------------------------------------------------------- MQTT commands
\* commands.go:8-14: the fields of a Command; a pointer that is nil and an
\* empty mode are the fields the payload does not have.  valid stands for a
\* payload json.Unmarshal accepts.
Command(valid, mode, dose1, dose2, backflush, power) ==
    [valid |-> valid, Mode |-> mode, Dose1 |-> dose1, Dose2 |-> dose2,
     BackFlush |-> backflush, Power |-> power]

CommandPayloads ==
    {Command(v, m, a, b, f, p) :
        v \in BOOLEAN, m \in {"", "dose2"}, a \in {<<>>, <<1857>>},
        b \in {<<>>, <<3203>>}, f \in {<<>>, <<FALSE>>, <<TRUE>>},
        p \in {<<>>, <<TRUE>>}}

\* commands.go:16-28: ParseCommand returns an error for a payload that is no
\* JSON and for one with none of the five fields
ParseCommand(payload) ==
    /\ payload.valid
    /\ ~(/\ payload.Mode = ""
         /\ payload.Dose1 = <<>>
         /\ payload.Dose2 = <<>>
         /\ payload.BackFlush = <<>>
         /\ payload.Power = <<>>)

\* commands.go:34-44 and 60-62: HasDose1, HasDose2, HasMode, HasBackFlush
Has(cmd, stage) ==
    CASE stage = "dose1" -> cmd.Dose1 # <<>>
      [] stage = "dose2" -> cmd.Dose2 # <<>>
      [] stage = "mode" -> cmd.Mode # ""
      [] stage = "backflush" -> cmd.BackFlush = <<TRUE>>

\* part_004:58-89: the four if statements of the command goroutine, in the
\* order of the source
Stages == <<"dose1", "dose2", "mode", "backflush">>

\* client.go:665-675: StartBackFlush sends its command
StartBackFlushCall(s) == EnterRequest(s, "StartBackFlush")

\* part_004:61, 69, 78, 86: the call the stage makes
Call(s, cmd, stage, data) ==
    CASE stage = "dose1" -> Unlock(Lock(SetDoseCall(s, "Dose1", cmd.Dose1[1], data), "modeLock"), "modeLock")
      [] stage = "dose2" -> Unlock(Lock(SetDoseCall(s, "Dose2", cmd.Dose2[1], data), "modeLock"), "modeLock")
      [] stage = "mode" -> SetModeCall(s, ParseDoseMode(cmd.Mode))
      [] stage = "backflush" -> StartBackFlushCall(s)

\* mutant of Advance: the goroutine returns when an operation fails
Advance_Abort(m, e) ==
    IF m.stage = Len(Stages) \/ e # ErrNil
    THEN [m EXCEPT !.pc = "done"]
    ELSE [m EXCEPT !.pc = "run", !.stage = @ + 1]

\* part_004:58-89: an error is logged, and the goroutine goes on to the next
\* if statement, or ends after the last
Advance(m, e) ==
    IF m.stage = Len(Stages)
    THEN [m EXCEPT !.pc = "done"]
    ELSE [m EXCEPT !.pc = "run", !.stage = @ + 1]

\* part_004:42-51: a message on the command topic; a payload ParseCommand
\* rejects is logged, for any other the goroutine is started
mqtt_command(payload) ==
    /\ mq.pc \in {"none", "done", "rejected"}
    /\ th["main"].pc = "idle"
    /\ mq' = IF ParseCommand(payload)
             THEN [NoMessage EXCEPT !.pc = "run", !.cmd = payload, !.stage = 1]
             ELSE [NoMessage EXCEPT !.pc = "rejected", !.cmd = payload]
    /\ UNCHANGED <<session, now, th, machine, onStatusChange, published, web, app, rw>>

\* part_004:58-89: the goroutine at one of its if statements: it calls the
\* operation of the field, or passes a field the command does not have
command_step ==
    /\ mq.pc = "run"
    /\ LET stage == Stages[mq.stage]
       IN  IF Has(mq.cmd, stage)
           THEN /\ Step("main", Call(th["main"], mq.cmd, stage, snapshot))
                /\ mq' = [mq EXCEPT !.pc = "wait"]
           ELSE /\ mq' = Advance(mq, ErrNil)
                /\ UNCHANGED th
    /\ UNCHANGED <<session, now, machine, onStatusChange, published, web, app, rw>>

\* the operation has returned; log is the history of the operations the
\* goroutine has run, with what they returned
command_ret ==
    /\ mq.pc = "wait"
    /\ th["main"].pc = "idle"
    /\ mq' = [Advance(mq, th["main"].ret) EXCEPT
                 !.log = Append(@, [op |-> Stages[mq.stage], err |-> th["main"].ret])]
    /\ UNCHANGED <<session, now, th, machine, onStatusChange, published, web, app, rw>>

\* client.go:675-686: StartBackFlush with the answer to its command
StartBackFlush_ret(t) ==
    /\ th[t].pc = "exec_ret"
    /\ th[t].caller = "StartBackFlush"
    /\ Step(t, Return(th[t], IF th[t].err # ErrNil THEN th[t].err
                             ELSE IF th[t].resp \notin {StatusOK, StatusAccepted}
                                  THEN ErrBackFlush
                                  ELSE ErrNil))
    /\ UNCHANGED <<session, now, device>>

\* the vendor service accepts a command, refuses it, or cannot be reached
CommandOutcomes == {o \in Outcomes : o.resp \in {StatusOK, ServerError} \/ o.err = ErrTransport}

CommandNext ==
    \/ \E payload \in CommandPayloads : mqtt_command(payload)
    \/ command_step
    \/ command_ret
    \/ \E out \in CommandOutcomes : doAuthenticatedRequest("main", out)
    \/ SetDose_ret("main")
    \/ SetMode_ret("main")
    \/ StartBackFlush_ret("main")
    \/ notifyStatusChange("main")

\* The messages on the command topic, one after the other.
CommandSpec == Init /\ [][CommandNext]_vars

\* ----------------------------------------------------------- MQTT triggers
\* gjson.Result as matchValue uses it: whether the selector found a value, the
\* JSON type of the value, and its Num and Str
Result(exists, type, num, str) == [exists |-> exists, Type |-> type, Num |-> num, Str |-> str]

Missing == Result(FALSE, "Null", 0, "")

Results == {Missing, Result(TRUE, "Number", 1, ""), Result(TRUE, "String", 0, "on"),
            Result(TRUE, "True", 0, "")}

Selectors == {"state", "on"}

\* a message on a trigger topic: what gjson.Get finds for each selector
TriggerPayloads == [Selectors -> Results]

\* the value of a condition as the configuration holds it: a float64, a
\* string, a bool, or a value of another type (kind "int")
Expected(kind, num, str, bool) == [kind |-> kind, num |-> num, str |-> str, bool |-> bool]

ExpectedValues ==
    {Expected("float64", 1, "", FALSE), Expected("string", 0, "on", FALSE),
     Expected("bool", 0, "", TRUE), Expected("int", 1, "", FALSE)}

Conditions == {[Selector |-> sel, Value |-> v] : sel \in Selectors, v \in ExpectedValues}

\* no condition, one condition, or one for each selector
ConditionLists ==
    {<<>>} \cup {<<c>> : c \in Conditions}
           \cup {<<c, d>> : c \in {x \in Conditions : x.Selector = "state"},
                            d \in {x \in Conditions : x.Selector = "on"}}

\* the triggers of one topic in the order of the configuration
TriggerLists ==
    {<<[Conditions |-> c, Mode |-> "dose1"]>> : c \in ConditionLists}
    \cup {<<[Conditions |-> c, Mode |-> "dose1"], [Conditions |-> d, Mode |-> "Dose2"]>> :
             c \in ConditionLists, d \in ConditionLists}

\* gjson.Result.Bool, called at part_004:104: true for the JSON value true,
\* for a number that is not 0 and for a string strconv.ParseBool reads as true
Bool(actual) ==
    CASE actual.Type = "True" -> TRUE
      [] actual.Type = "Number" -> actual.Num # 0
      [] actual.Type = "String" -> actual.Str \in {"1", "t", "true"}
      [] OTHER -> FALSE

\* part_004:94-109; in the default case a string is compared with a value
\* that is no string, which is never equal
matchValue(actual, expected) ==
    IF ~actual.exists THEN FALSE
    ELSE CASE expected.kind = "float64" -> actual.Num = expected.num
           [] expected.kind = "string" -> actual.Str = expected.str
           [] expected.kind = "bool" -> Bool(actual) = expected.bool
           [] OTHER -> FALSE

\* part_004:138-153: the loop over the conditions, left at the first that
\* does not match
RECURSIVE allMatch(_, _)
allMatch(conditions, payload) ==
    IF conditions = <<>> THEN TRUE
    ELSE IF ~matchValue(payload[Head(conditions).Selector], Head(conditions).Value)
    THEN FALSE
    ELSE allMatch(Tail(conditions), payload)

\* mutant of FirstMatch: the last trigger that matches wins
FirstMatch_Last(triggers, payload) ==
    LET matching == {i \in 1..Len(triggers) : allMatch(triggers[i].Conditions, payload)}
    IN  IF matching = {} THEN <<>>
        ELSE <<ParseDoseMode(triggers[CHOOSE i \in matching :
                                         \A j \in matching : j <= i].Mode)>>

\* part_004:134-177: the loop over the triggers of the topic, left at the
\* first whose conditions all match; the mode SetMode is to be called with,
\* if any
RECURSIVE FirstMatch(_, _)
FirstMatch(triggers, payload) ==
    IF triggers = <<>> THEN <<>>
    ELSE IF allMatch(Head(triggers).Conditions, payload)
    THEN <<ParseDoseMode(Head(triggers).Mode)>>
    ELSE FirstMatch(Tail(triggers), payload)

\* part_004:129-180: a message on the topic of the triggers
mqtt_trigger(payload) ==
    /\ mq.pc \in {"none", "unmatched", "spawned"}
    /\ th["main"].pc = "idle"
    /\ LET fired == FirstMatch(mq.triggers, payload)
       IN  mq' = [mq EXCEPT !.pc = IF fired = <<>> THEN "unmatched" ELSE "go",
                            !.payload = payload, !.fired = fired, !.calls = 0]
    /\ UNCHANGED <<session, now, th, machine, onStatusChange, published, web, app, rw>>

\* part_004:162-172: the goroutine started for the trigger that matched calls
\* SetMode
trigger_go ==
    /\ mq.pc = "go"
    /\ th["main"].pc = "idle"
    /\ Step("main", SetModeCall(th["main"], mq.fired[1]))
    /\ mq' = [mq EXCEPT !.pc = "spawned", !.calls = @ + 1]
    /\ UNCHANGED <<session, now, machine, onStatusChange, published, web, app, rw>>

\* part_004:111-127: the triggers of the configuration
TriggerInit ==
    /\ Start
    /\ onStatusChange = "nil"
    /\ published = NoPublished
    /\ web = NoWeb
    /\ app = NoApp
    /\ mq \in {[NoMessage EXCEPT !.triggers = ts] : ts \in TriggerLists}
    /\ rw = NoAccess
    /\ dashboard = NoBody
    /\ proof = NoProof
    /\ sig = NoSig

TriggerNext ==
    \/ \E payload \in TriggerPayloads : mqtt_trigger(payload)
    \/ trigger_go
    \/ \E out \in {o \in Outcomes : o.resp = StatusOK} : doAuthenticatedRequest("main", out)
    \/ SetMode_ret("main")
    \/ notifyStatusChange("main")

\* The messages on a trigger topic, one after the other, for every list of
\* triggers.
TriggerSpec == TriggerInit /\ [][TriggerNext]_vars

\* ------------------------------------------- the machine data field by field
\* client.go:430-435 and 691-696: the six fields in the order in which they
\* are written and read
Fields == <<"mode", "dose1", "dose2", "machineOn", "boiler", "scale">>

\* what the steps on the single fields leave alone
others == <<session, now, th, serial, vendor, tick, stop, dashboard, proof, sig,
            onStatusChange, published, web, app, mq>>

\* client.go:423: fetchCurrentMode has the data of a dashboard body and takes
\* modeLock.Lock() to store all six fields
store_Lock(data) ==
    /\ rw.writer.pc = "idle"
    /\ CanLock(rw.mu)
    /\ rw' = [rw EXCEPT !.mu.writer = "writer",
                        !.writer = [pc |-> "store", k |-> 1, fields |-> Fields,
                                    data |-> data]]
    /\ UNCHANGED <<snapshot, others>>

\* client.go:597-599: SetMode, its command accepted, takes modeLock.Lock() to
\* store the mode
SetMode_Lock(m) ==
    /\ rw.writer.pc = "idle"
    /\ CanLock(rw.mu)
    /\ rw' = [rw EXCEPT !.mu.writer = "writer",
                        !.writer = [pc |-> "store", k |-> 1, fields |-> <<"mode">>,
                                    data |-> [NoData EXCEPT !.mode = m]]]
    /\ UNCHANGED <<snapshot, others>>

\* client.go:430-435, 598: one assignment to a field of the client
store_field ==
    /\ rw.writer.pc = "store"
    /\ rw.writer.k <= Len(rw.writer.fields)
    /\ LET f == rw.writer.fields[rw.writer.k]
       IN  snapshot' = [snapshot EXCEPT ![f] = rw.writer.data[f]]
    /\ rw' = [rw EXCEPT !.writer.k = @ + 1]
    /\ UNCHANGED others

\* client.go:436, 599: modeLock.Unlock(); committed is history, the machine
\* data as the last writer left them
store_Unlock ==
    /\ rw.writer.pc = "store"
    /\ rw.writer.k > Len(rw.writer.fields)
    /\ rw' = [rw EXCEPT !.mu.writer = "none", !.writer = NoAccess.writer,
                        !.committed = snapshot]
    /\ UNCHANGED <<snapshot, others>>

\* client.go:690: GetStatus takes modeLock.RLock(); seen is history, the
\* machine data as the last writer had left them at that moment
GetStatus_RLock ==
    /\ rw.reader.pc = "idle"
    /\ CanRLock(rw.mu)
    /\ rw' = [rw EXCEPT !.mu.readers = @ \cup {"reader"},
                        !.reader = [pc |-> "read", k |-> 1, got |-> NoData,
                                    seen |-> rw.committed]]
    /\ UNCHANGED <<snapshot, others>>

\* client.go:691-696: one field is copied
GetStatus_field ==
    /\ rw.reader.pc = "read"
    /\ rw.reader.k <= Len(Fields)
    /\ LET f == Fields[rw.reader.k]
       IN  rw' = [rw EXCEPT !.reader.got[f] = snapshot[f], !.reader.k = @ + 1]
    /\ UNCHANGED <<snapshot, others>>

\* client.go:697-709: modeLock.RUnlock(), and the MachineStatus is built from
\* the copies
GetStatus_RUnlock ==
    /\ rw.reader.pc = "read"
    /\ rw.reader.k > Len(Fields)
    /\ rw' = [rw EXCEPT !.mu.readers = @ \ {"reader"}, !.reader.pc = "return"]
    /\ UNCHANGED <<snapshot, others>>

\* the caller has the status
GetStatus_ret ==
    /\ rw.reader.pc = "return"
    /\ rw' = [rw EXCEPT !.reader = NoAccess.reader]
    /\ UNCHANGED <<snapshot, others>>

TornNext ==
    \/ \E p \in {BasePayload, HeatingPayload, StandbyPayload} :
          store_Lock(extractDataFromDashboard(p, now))
    \/ \E m \in {"Dose2", "Continuous"} : SetMode_Lock(m)
    \/ store_field
    \/ store_Unlock
    \/ GetStatus_RLock
    \/ GetStatus_field
    \/ GetStatus_RUnlock
    \/ GetStatus_ret

\* A goroutine that stores machine data while another is in GetStatus, every
\* assignment a step of its own.
TornSpec == Init /\ [][TornNext]_vars

\* ==================================================================== claims
Calls(s) == Len(s.targets) + (IF s.pc = "target" THEN 1 ELSE 0)

\* C1: one doAuthenticatedRequest makes at most two target calls, the second
\* only after a 401; with the answers 401, 200 it returns the 200 without
\* error, with 401, 401 it returns the second 401 (Unauthorized) to its caller.
C1_ExactlyOneRetry ==
    \A t \in Threads :
       LET s == th[t]
       IN  /\ Calls(s) <= 2
           /\ Len(s.targets) = 2 => s.targets[1] = StatusUnauthorized
           /\ (s.pc = "exec_ret" /\ s.targets = <<StatusUnauthorized, StatusOK>>)
                 => (s.err = ErrNil /\ s.resp = StatusOK)
           /\ (s.pc = "exec_ret" /\ s.targets = <<StatusUnauthorized, StatusUnauthorized>>)
                 => (s.err = ErrNil /\ s.resp = StatusUnauthorized)

C1_Witness ==
    \E t \in Threads :
       /\ th[t].pc = "exec_ret"
       /\ th[t].targets = <<StatusUnauthorized, StatusUnauthorized>>

\* C2: when ensureValidToken finds a token whose expiry is more than 5
\* minutes away, it returns nil at once: no request is sent, token and
\* installKey are left as they are.
C2_FreshTokenNoRequest ==
    [][\A t \in Threads :
          (/\ th[t].pc = "ensureValidToken"
           /\ th'[t] # th[t]
           /\ token # NoToken
           /\ token.ExpiresAt > now + RefreshMargin)
          => (/\ th'[t].pc = "exec_token"
              /\ th'[t].ensure = "noop"
              /\ th'[t].err = ErrNil
              /\ token' = token
              /\ installKey' = installKey
              /\ issued' = issued
              /\ nextKey' = nextKey)]_vars

C2_Witness ==
    \E t \in Threads :
       /\ th[t].pc = "exec_token"
       /\ th[t].ensure = "noop"
       /\ token # NoToken
       /\ token.ExpiresAt > now + RefreshMargin

\* C3: every target request, the retried one included, is sent after an
\* ensureValidToken of the same attempt has returned; ensureValidToken calls
\* authenticate when no token is cached and refreshToken when the cached
\* token expires in less than 5 minutes.
C3_EnsureBeforeRequest ==
    /\ [](\A t \in Threads :
            /\ th[t].pc = "exec_token"
                 => th[t].ensure \in {"noop", "authenticate"} \cup RefreshPaths
            /\ th[t].pc \in {"exec_key", "target"} => th[t].ensure = "ok")
    /\ [][\A t \in Threads :
            (th[t].pc = "ensureValidToken" /\ th'[t] # th[t])
            => (/\ token = NoToken
                     => (th'[t].pc = "authenticate" /\ th'[t].ensure = "authenticate")
                /\ (token # NoToken /\ token.ExpiresAt - now < RefreshMargin)
                     => (th'[t].pc = "refreshToken" /\ th'[t].ensure = "refreshToken"))]_vars

C3_Witness ==
    \E t \in Threads :
       /\ th[t].pc = "target"
       /\ ~th[t].allowRetry
       /\ th[t].ensure = "ok"

\* C4 as claimed: a refresh request that fails never makes refreshToken
\* fail outright.
C4_Original ==
    \A t \in Threads :
       (th[t].pc = "exec_ret" /\ th[t].ensure = "refreshToken" /\ th[t].resp # NoResp)
       => th[t].err = ErrNil

\* C4 amended: refreshToken falls back to authenticate when the refresh
\* request is answered with a status other than 200; it returns an error
\* when the authenticate it called fails, and also, without any fallback,
\* when the refresh request fails in transport, when its 200 answer cannot
\* be decoded or when the signature headers cannot be generated; when the
\* fallback sign-in succeeds it returns nil with a newly stored token.
C4_RefreshFallback ==
    /\ [](\A t \in Threads :
            (th[t].pc = "exec_ret" /\ th[t].ensure \in RefreshPaths /\ th[t].err # ErrNil)
            => \/ /\ th[t].ensure \in {"fallback", "delegate"}
                  /\ th[t].err \in RegistrationFailed \cup AuthenticationFailed
               \/ /\ th[t].ensure = "refreshToken"
                  /\ \/ th[t].err = ErrRefreshRequest /\ th[t].resp = NetErr
                     \/ th[t].err = ErrRefreshDecode /\ th[t].resp = StatusOK
                     \/ th[t].err = ErrSign /\ th[t].resp = NoResp)
    /\ [][\A t \in Threads :
            /\ (th[t].pc = "refresh" /\ th'[t].pc # "refresh"
                    /\ th'[t].resp \notin {NetErr, StatusOK})
               => (/\ th'[t].pc = "authenticate"
                   /\ th'[t].ensure = "fallback"
                   /\ token' = token)
            /\ (th[t].pc = "signin" /\ th[t].ensure = "fallback"
                    /\ th'[t].pc = "exec_token")
               => (/\ token'.AccessToken = Granted(th[t], issued)
                   /\ token'.AccessToken \in 1..issued'
                   /\ token' # token)]_vars

C4_Witness ==
    \E t \in Threads :
       /\ th[t].pc = "exec_token"
       /\ th[t].ensure = "fallback"
       /\ token.AccessToken = issued

\* C5: a refresh request is in flight only with a non-empty refresh token of
\* a stored token and a registered installation key; a refreshToken that
\* finds no refresh token or no key sends no refresh request and goes on in
\* authenticate.
C5_RefreshOnlyAuthenticated ==
    \A t \in Threads :
       /\ th[t].pc = "refresh"
            => (/\ th[t].refreshToken # Empty
                /\ th[t].refreshToken \in 1..issued
                /\ th[t].installKey # NoKey
                /\ th[t].installKey \in registered
                /\ token # NoToken
                /\ th[t].ensure = "refreshToken")
       /\ th[t].ensure = "delegate"
            => th[t].pc \in {"authenticate", "registerClient", "authenticate_reread",
                             "signin", "exec_token", "exec_ret"}

C5_Witness ==
    \E t \in Threads :
       /\ th[t].pc = "signin"
       /\ th[t].ensure = "delegate"
       /\ token # NoToken
       /\ token.RefreshToken = Empty

\* C6: when the /auth/init handshake fails, the call fails with a
\* registration error without sending a sign-in, the generated key is not
\* stored, and a key in a handshake is always a newly generated one.
C6_RegistrationFailure ==
    /\ [][\A t \in Threads :
            (th[t].pc = "registerClient" /\ th'[t].pc # "registerClient"
                /\ registered' = registered)
            => (/\ installKey' = installKey
                /\ th'[t].newKey = NoKey
                /\ th'[t].err \in RegistrationFailed
                /\ th'[t].pc = "exec_ret")]_vars
    /\ [](\A t \in Threads :
            th[t].pc = "registerClient"
            => (/\ th[t].newKey \in 1..(nextKey - 1)
                /\ th[t].newKey \notin registered
                /\ th[t].newKey # installKey
                /\ \A u \in Threads \ {t} : th[u].newKey # th[t].newKey))
    /\ [](installKey # NoKey => installKey \in registered)

C6_Witness ==
    \E t \in Threads :
       /\ th[t].pc = "exec_ret"
       /\ th[t].err \in {ErrInitRequest, ErrInitStatus}
       /\ installKey = NoKey
       /\ registered = {}

\* C7: a sign-in request is in flight only when a key is stored whose
\* handshake the service accepted, and it is signed with such a key.
C7_RegistrationPrecedesSignin ==
    \A t \in Threads :
       th[t].pc = "signin"
       => (/\ th[t].signed
           /\ th[t].installKey # NoKey
           /\ th[t].installKey \in registered
           /\ installKey # NoKey
           /\ installKey \in registered)

C7_Witness ==
    \E t \in Threads :
       /\ th[t].pc = "signin"
       /\ th[t].caller = "Connect"
       /\ th[t].installKey = installKey

\* C8 as claimed: once an installation key is stored it is never replaced.
C8_IdentityImmutable ==
    [][installKey # NoKey => installKey' = installKey]_vars

\* C9: a stored token has expiry = time of the write + validity window, and
\* its access token, refresh token and expiry come from one issuance: every
\* write of c.token stores a whole new TokenInfo.
C9_TokenWholesale ==
    /\ [](token # NoToken
            => (/\ token.ExpiresAt = storedAt + ValidityWindow
                /\ token.AccessToken \in 1..issued
                /\ token.RefreshToken \in {Empty, token.AccessToken}))
    /\ [][token' # token
            => (/\ token'.AccessToken \in 1..issued'
                /\ token'.AccessToken # token.AccessToken
                /\ token'.RefreshToken \in {Empty, token'.AccessToken}
                /\ token'.ExpiresAt = now + ValidityWindow)]_vars

C9_Witness ==
    /\ token # NoToken
    /\ token.AccessToken > 1
    /\ storedAt > 0
    /\ now > storedAt

\* C10 as claimed: when the authenticate forced by a 401 fails, the client
\* no longer holds the rejected token.
C10_Original ==
    \A t \in Threads :
       (th[t].pc = "exec_ret" /\ th[t].err = ErrReauth)
       => token.AccessToken # th[t].accessToken

\* C10 amended: on a 401 with allowRetry true the token is not discarded:
\* authenticate is called with c.token left in place, and when that
\* authenticate fails the call fails with "re-authentication failed" and
\* leaves c.token as it is, so the client still holds a token.
C10_TokenKeptOn401 ==
    /\ [][\A t \in Threads :
            /\ (th[t].pc = "target" /\ th'[t].authCaller = "retry")
               => (token' = token /\ th'[t].pc = "authenticate")
            /\ (th[t].authCaller = "retry" /\ th'[t].pc = "exec_ret")
               => (token' = token /\ th'[t].err = ErrReauth)]_vars
    /\ [](\A t \in Threads :
            (th[t].authCaller = "retry" \/ th[t].err = ErrReauth) => token # NoToken)

C10_Witness ==
    \E t \in Threads :
       /\ th[t].pc = "exec_ret"
       /\ th[t].err = ErrReauth
       /\ token.AccessToken = th[t].accessToken

\* C11: a SetMode or SetDose whose request fails (session error, transport
\* error, or an answer that is neither 200 nor 202) leaves every field of
\* the machine data as it is, returns an error and does not call the
\* status callback.
C11_FailedMutationNoChange ==
    [][\A t \in Threads :
          (/\ th[t].pc = "exec_ret"
           /\ th[t].caller \in {"SetMode", "SetDose"}
           /\ th'[t] # th[t]
           /\ (th[t].err # ErrNil \/ th[t].resp \notin {StatusOK, StatusAccepted}))
          => (/\ snapshot' = snapshot
              /\ th'[t].pc = "idle"
              /\ th'[t].ret # ErrNil)]_vars

C11_Witness ==
    /\ th["main"].pc = "idle"
    /\ th["main"].ret = ErrSetMode
    /\ snapshot.dose1 # NoDose
    /\ snapshot.mode = "Dose1"

\* C12: a fetchCurrentMode whose request fails (session error, transport
\* error, or an answer other than 200) leaves the machine data as they are,
\* returns an error and does not call the status callback.
C12_FailedPollNoChange ==
    [][\A t \in Threads :
          (/\ th[t].pc = "exec_ret"
           /\ th[t].caller = "fetchCurrentMode"
           /\ th'[t] # th[t]
           /\ (th[t].err # ErrNil \/ th[t].resp # StatusOK))
          => (/\ snapshot' = snapshot
              /\ th'[t].pc = "idle"
              /\ th'[t].ret # ErrNil)]_vars

C12_Witness ==
    /\ th["poller"].pc = "idle"
    /\ th["poller"].ret = ErrDashboard
    /\ snapshot.scale # NoScale

\* C13 as claimed: a SetMode or SetDose that succeeded has stored the new
\* value when it calls the status callback, and the status the callback gets
\* holds the new value, also while fetchCurrentMode runs in another
\* goroutine.
C13_OptimisticNotify ==
    [][\A t \in Threads :
          /\ (th[t].pc = "exec_ret" /\ th'[t].pc = "notify" /\ th[t].caller = "SetMode")
             => snapshot'.mode = th[t].mode
          /\ (th[t].pc = "exec_ret" /\ th'[t].pc = "notify" /\ th[t].caller = "SetDose")
             => (IF th[t].doseId = "Dose1" THEN snapshot'.dose1 ELSE snapshot'.dose2)
                   = th[t].roundedWeight
          /\ (th[t].pc = "notify" /\ th'[t].pc # "notify" /\ th[t].caller = "SetMode")
             => snapshot.mode = th[t].mode
          /\ (th[t].pc = "notify" /\ th'[t].pc # "notify" /\ th[t].caller = "SetDose")
             => (IF th[t].doseId = "Dose1" THEN snapshot.dose1 ELSE snapshot.dose2)
                   = th[t].roundedWeight]_vars

\* C17 as claimed: when SetDose("Dose1", a) and SetDose("Dose2", b) run
\* concurrently and both succeed, the machine data hold a and b, and the
\* dose pair last sent to the vendor service is that same pair: neither call
\* puts the other's dose back.
C17_ConcurrentDoses ==
    \A t, u \in Threads :
       (/\ th[t].pc = "notify" /\ th[t].caller = "SetDose" /\ th[t].doseId = "Dose1"
        /\ th[u].pc = "notify" /\ th[u].caller = "SetDose" /\ th[u].doseId = "Dose2")
       => (/\ snapshot.dose1 = th[t].roundedWeight
           /\ snapshot.dose2 = th[u].roundedWeight
           /\ vendor = <<snapshot.dose1, snapshot.dose2>>)

\* A successful fetchCurrentMode of t stores its data in this step.
Polled(t) ==
    /\ th[t].pc = "exec_ret"
    /\ th[t].caller = "fetchCurrentMode"
    /\ th'[t].pc = "notify" \/ th'[t].ret = ErrNil

\* The boiler countdown of body p read at time is computed from the clock.
FromClock(p, time) ==
    /\ p.valid
    /\ \E i \in 1..Len(p.widgets) :
          /\ p.widgets[i].code = "CMCoffeeBoiler"
          /\ p.widgets[i].readyStartTime # <<>>
          /\ p.widgets[i].readyStartTime[1] > UnixMilli(time)

\* C14 as claimed: a poll that gets the body the previous poll got calls the
\* status callback zero times, also when the boiler countdown is computed
\* from a readyStartTime in the future.
C14_Original ==
    [][\A t \in Threads : \A p \in Payloads : \A t0 \in Instants :
          (/\ Polled(t)
           /\ t0 <= now
           /\ snapshot = extractDataFromDashboard(p, t0)
           /\ snapshot' = extractDataFromDashboard(p, now))
          => th'[t].pc # "notify"]_vars

\* C14 amended: a poll that gets the body the previous poll got calls the
\* status callback zero times (optional fields missing in both included),
\* unless the boiler countdown is computed from a readyStartTime in the
\* future and the clock has moved on: then the countdown differs and the
\* callback is called.  A body that differs from the previous one in
\* scale.batteryLevel only makes the poll call the callback, once.
C14_DiffSuppression ==
    [][\A t \in Threads :
          /\ \A p \in Payloads : \A t0 \in Instants :
                (/\ Polled(t)
                 /\ t0 <= now
                 /\ snapshot = extractDataFromDashboard(p, t0)
                 /\ snapshot' = extractDataFromDashboard(p, now))
                => IF FromClock(p, t0) /\ t0 # now
                   THEN th'[t].pc = "notify"
                   ELSE th'[t].pc # "notify"
          /\ (/\ Polled(t)
              /\ snapshot = extractDataFromDashboard(BasePayload, now)
              /\ snapshot' = extractDataFromDashboard(BatteryPayload, now))
             => th'[t].pc = "notify"
          /\ (th[t].pc = "notify" /\ th'[t] # th[t])
             => (th'[t].pc # "notify" /\ snapshot' = snapshot)]_vars

C14_Witness ==
    /\ th["poller"].pc = "select"
    /\ th["poller"].ret = ErrNil
    /\ ~th["poller"].notified
    /\ snapshot = extractDataFromDashboard(BatteryPayload, now)

\* C15 as claimed: a successful poll calls the status callback whenever the
\* mode, the power state, a dose, the boiler or the scale it stores differs
\* from what was stored before, also when a dose, the boiler or the scale
\* was there before and is missing now.
C15_DiffComplete ==
    [][\A t \in Threads :
          (Polled(t) /\ snapshot' # snapshot) => th'[t].pc = "notify"]_vars

\* C16: StartPolling goes back to its select when fetchCurrentMode returns,
\* with or without an error, and a tick that is there can then be taken; it
\* returns only when stopCh is closed; once stopCh is closed it returns in
\* the end, and after it has returned it does nothing more.
C16_PollUntilStopped ==
    /\ [][\A t \in Threads :
            /\ (th[t].pc = "exec_ret" /\ th[t].op = "StartPolling" /\ th'[t] # th[t])
               => th'[t].pc \in {"select", "notify"}
            /\ (th[t].pc = "notify" /\ th[t].op = "StartPolling" /\ th'[t] # th[t])
               => th'[t].pc = "select"
            /\ th[t].pc = "returned" => th'[t] = th[t]]_vars
    /\ [](\A t \in Threads :
            /\ th[t].pc = "returned" => stop
            /\ (th[t].pc = "select" /\ tick) => ENABLED select_tick(t))
    /\ (stop /\ th["poller"].pc # "idle") ~> (th["poller"].pc = "returned")

C16_Witness ==
    /\ th["poller"].pc = "returned"
    /\ stop
    /\ tick
    /\ snapshot # NoData

\* The positions at which a request of the goroutine is in flight:
\* /auth/init, /auth/signin, /auth/refreshtoken, and the request of
\* doAuthenticatedRequest (things, dashboard, command).
InFlight == {"registerClient", "signin", "refresh", "target"}

C20_ConnectSequence ==
    /\ [][\A t \in Threads :
            /\ (th'[t].caller = "fetchMachineInfo" /\ th[t].caller # "fetchMachineInfo")
               => (/\ th[t].caller = "Connect"
                   /\ th[t].pc = "signin"
                   /\ token' # NoToken
                   /\ token' # token
                   /\ th[t].installKey \in registered)
            /\ (th'[t].op = "Connect" /\ th[t].op # "Connect")
               => (/\ th[t].caller = "fetchMachineInfo"
                   /\ th[t].pc = "exec_ret"
                   /\ th[t].err = ErrNil
                   /\ th[t].resp = StatusOK
                   /\ serial' \in {l[1] : l \in ThingsLists \ {<<>>}}
                   /\ th'[t].pc = "ensureValidToken"
                   /\ th'[t].caller = "fetchCurrentMode")
            /\ (/\ th[t].caller \in {"Connect", "fetchMachineInfo"} \/ th[t].op = "Connect"
                /\ th'[t].pc = "idle")
               => \/ th'[t].ret # ErrNil
                  \/ /\ th[t].op = "Connect"
                     /\ th[t].caller = "fetchCurrentMode"
                     /\ th[t].pc = "notify"
                          \/ (th[t].pc = "exec_ret" /\ th[t].err = ErrNil
                                 /\ th[t].resp = StatusOK)
            /\ (th'[t].ret = ErrNoMachines /\ th'[t] # th[t])
               => (serial' = serial /\ th'[t].pc = "idle")]_vars
    /\ [](\A t \in Threads :
            (/\ th[t].pc = "exec_ret" /\ th[t].caller = "fetchMachineInfo"
             /\ th[t].err = ErrNil /\ th[t].resp = StatusOK)
            => /\ LET r == MachineStep(th[t], serial, TRUE, <<>>)
                  IN  /\ r.serial = serial
                      /\ r.th.pc = "idle"
                      /\ r.th.ret = ErrNoMachines
               /\ \A l \in ThingsLists \ {<<>>} :
                     LET r == MachineStep(th[t], serial, TRUE, l)
                     IN  /\ r.serial = l[1]
                         /\ r.th.pc = "ensureValidToken"
                         /\ r.th.caller = "fetchCurrentMode")

C20_Witness ==
    /\ th["main"].pc = "idle"
    /\ th["main"].ret = ErrNoMachines
    /\ serial = "LM0002"
    /\ snapshot # NoData

\* t is in the authenticate or refreshToken that its ensureValidToken called
\* although the token stored by now needs no refresh.
Redundant(t) ==
    /\ th[t].authCaller = "ensureValidToken"
    /\ th[t].pc \in {"authenticate", "registerClient", "authenticate_reread", "signin",
                     "refreshToken", "refreshToken_key", "refresh"}
    /\ token # NoToken
    /\ ~NeedsRefresh(token, now)

\* C19 as claimed: when two goroutines run ensureValidToken on the same
\* missing or expiring token, the token stored in the end is never one that
\* was issued before the token it replaces.
C19_Original ==
    [][token' # token => token'.AccessToken > token.AccessToken]_vars

\* C19 amended: when two goroutines run ensureValidToken on the same missing
\* or expiring token, neither fails because of the other: no goroutine finds
\* c.token nil after its ensureValidToken, and every token pair the vendor
\* service issued for a request is stored by the goroutine that asked, which
\* then goes on without error.  At most one of the two is in a re-
\* authentication that the stored token has made needless.  The stored
\* token is always one whole issued pair, but it can be an older pair
\* written over a more recently issued one, when the answers arrive in the
\* other order.
C19_RaceHarmless ==
    /\ [](\A t \in Threads : th[t].pc # "panic")
    /\ [](Cardinality({t \in Threads : Redundant(t)}) <= 1)
    /\ [](token # NoToken
            => (token.AccessToken \in 1..issued
                /\ token.RefreshToken \in {Empty, token.AccessToken}))
    /\ [][\A t \in Threads :
            (th[t].grant # NoGrant /\ th'[t].grant = NoGrant)
            => (/\ token' = NewToken(th[t].grant.id, th[t].grant.body, now)
                /\ th'[t].err = ErrNil
                /\ th'[t].pc \in {"exec_token", "ensureValidToken"})]_vars

C19_Witness ==
    /\ \A t \in Threads : th[t].pc = "exec_token" /\ th[t].ensure = "authenticate"
    /\ token.AccessToken = 1
    /\ issued = 2

\* C21 as claimed: a dose command of the web API or of MQTT whose weight is
\* outside 5 to 100 g does not reach SetDose: no request is sent for it and
\* the machine data stay as they are.
C21_DoseRangeChecked ==
    \A t \in Threads :
       th[t].caller = "SetDose" => th[t].weight \in MinDose..MaxDose

\* The dose SetDose of s sets and the dose it leaves, in a pair of doses.
Targeted(s, pair) == IF s.doseId = "Dose1" THEN pair[1] ELSE pair[2]
Other(s, pair) == IF s.doseId = "Dose1" THEN pair[2] ELSE pair[1]

\* C22: SetDose cuts the weight down to one decimal (18.55 g gives 18.5 g);
\* the command carries that value for the dose it sets and, for the other
\* dose, the weight found in the machine data when SetDose read them (0 when
\* there is none); after the command is accepted the machine data hold the
\* value the command carried and the other dose is left alone.
C22_RoundedDose ==
    /\ [](RoundWeight(1855) = 1850)
    /\ [][\A t \in Threads :
            /\ (th[t].pc = "idle" /\ th'[t].caller = "SetDose")
               => LET s == th'[t]
                  IN  /\ s.roundedWeight % 10 = 0
                      /\ s.roundedWeight <= s.weight
                      /\ s.weight < s.roundedWeight + 10
                      /\ Targeted(s, <<s.dose1Val, s.dose2Val>>) = s.roundedWeight
                      /\ Other(s, <<s.dose1Val, s.dose2Val>>)
                            = DoseValue(Other(s, <<snapshot.dose1, snapshot.dose2>>))
            /\ (/\ th[t].pc = "ensureValidToken" /\ th[t].caller = "SetDose"
                /\ th'[t].pc = "exec_ret"
                /\ th'[t].resp \in {StatusOK, StatusAccepted})
               => vendor' = <<th[t].dose1Val, th[t].dose2Val>>
            /\ (th[t].pc = "exec_ret" /\ th[t].caller = "SetDose" /\ th'[t].pc = "notify")
               => (/\ Targeted(th[t], <<snapshot'.dose1, snapshot'.dose2>>)
                        = Targeted(th[t], <<th[t].dose1Val, th[t].dose2Val>>)
                   /\ Other(th[t], <<snapshot'.dose1, snapshot'.dose2>>)
                        = Other(th[t], <<snapshot.dose1, snapshot.dose2>>))]_vars

C22_Witness ==
    /\ th["main"].pc = "notify"
    /\ th["main"].caller = "SetDose"
    /\ th["main"].weight = 1857
    /\ snapshot.dose1 = 1850
    /\ vendor = <<1850, 1620>>

\* C23 as claimed: when the signature headers cannot be generated in
\* doAuthenticatedRequest the call fails: no target request is sent without
\* them.
C23_NoUnsignedRequest ==
    \A t \in Threads : th[t].pc = "target" => th[t].signed

\* C24: a target request that is answered with a status other than 401, or
\* that fails in transport, is the last one of its doAuthenticatedRequest:
\* nothing is authenticated or registered, the answer or the transport error
\* is returned as it is, and a first answer other than 401 means there was
\* one target request only; the caller sends no further request for it.
C24_NoOtherRetry ==
    /\ [][\A t \in Threads :
            /\ (th[t].pc = "target" /\ th'[t] # th[t] /\ th'[t].resp # StatusUnauthorized)
               => (/\ th'[t].pc = "exec_ret"
                   /\ th'[t].err = IF th'[t].resp = NetErr THEN ErrTransport ELSE ErrNil
                   /\ UNCHANGED <<installKey, token, issued, nextKey, registered>>)
            /\ (/\ th[t].pc = "exec_ret" /\ th[t].caller = "SetDose" /\ th'[t] # th[t]
                /\ (th[t].err # ErrNil \/ th[t].resp \notin {StatusOK, StatusAccepted}))
               => (th'[t].pc = "idle" /\ th'[t].ret # ErrNil)]_vars
    /\ [](\A t \in Threads :
            (th[t].pc = "exec_ret" /\ Len(th[t].targets) >= 1
                /\ th[t].targets[1] # StatusUnauthorized)
            => (/\ Len(th[t].targets) = 1
                /\ th[t].resp = th[t].targets[1]
                /\ th[t].err \in {ErrNil, ErrTransport}))
    /\ [](\A t \in Threads : Calls(th[t]) <= 2)

C24_Witness ==
    /\ th["main"].pc = "exec_ret"
    /\ th["main"].caller = "SetDose"
    /\ th["main"].targets = <<ServerError>>
    /\ th["main"].err = ErrNil

\* Body p holds a widget with one of the codes whose output is an object.
HasWidget(p, codes) ==
    \E i \in 1..Len(p.widgets) : p.widgets[i].code \in codes /\ p.widgets[i].output

\* The goroutine t gets an answer 200 to its dashboard request in this step.
Answered(t) ==
    /\ th[t].pc = "exec_ret"
    /\ th[t].caller = "fetchCurrentMode"
    /\ th[t].err = ErrNil
    /\ th[t].resp = StatusOK
    /\ th'[t] # th[t]

\* C25: parsing never fails.  Whatever body comes with an answer 200 (one
\* that is no JSON, one without widgets, one whose widgets have the wrong
\* shape), fetchCurrentMode returns no error and stores a snapshot: the mode
\* is Continuous unless the body names another one, and the doses, the boiler
\* and the scale whose widget is missing are absent.
C25_ParsingNeverFails ==
    [][\A t \in Threads :
        Answered(t) =>
            /\ th'[t].pc = "notify" \/ th'[t].ret = ErrNil
            /\ snapshot'.mode \in DoseModes
            /\ ~dashboard.valid => snapshot' = NoData
            /\ ~HasWidget(dashboard, {"CMBrewByWeightDoses", "BrewByWeightDoses"})
                    => /\ snapshot'.dose1 = NoDose
                       /\ snapshot'.dose2 = NoDose
                       /\ snapshot'.mode = IF dashboard.direct = "absent"
                                           THEN "Continuous"
                                           ELSE ParseDoseMode(dashboard.direct)
            /\ ~HasWidget(dashboard, {"CMCoffeeBoiler", "CMBoilerStatus"})
                    => snapshot'.boiler = NoBoiler
            /\ ~HasWidget(dashboard, {"ThingScale"}) => snapshot'.scale = NoScale]_vars

\* A body whose only widget is no object has been parsed: the machine is on
\* by the top-level flag and nothing else is known.
C25_Witness ==
    /\ dashboard.valid
    /\ dashboard.widgets = <<Widget("")>>
    /\ th["main"].pc = "notify"
    /\ snapshot = [NoData EXCEPT !.machineOn = TRUE,
                                 !.mode = ParseDoseMode(dashboard.direct)]

\* output.doses.<id>.dose of widget w
DoseOf(w, id) == IF id = "Dose1" THEN w.dose1 ELSE w.dose2

\* Weight w counts as present: above zero, or, when negative weights count
\* too, other than zero.
Present(w, negative) == IF negative THEN w # 0 ELSE w > 0

\* The doses widgets of body p that give dose id a weight that is present.
Giving(p, id, negative) ==
    {i \in 1..Len(p.widgets) :
        /\ p.widgets[i].code \in {"CMBrewByWeightDoses", "BrewByWeightDoses"}
        /\ p.widgets[i].output
        /\ DoseOf(p.widgets[i], id) # <<>>
        /\ Present(DoseOf(p.widgets[i], id)[1], negative)}

\* The dose a snapshot of body p holds for id: that of the last widget
\* giving one, none otherwise.
DoseGiven(p, id, negative) ==
    LET S == Giving(p, id, negative)
    IN  IF S = {} THEN NoDose
        ELSE DoseOf(p.widgets[CHOOSE i \in S : \A j \in S : j <= i], id)[1]

\* The snapshot fetchCurrentMode stores for the vendor's sample widget.
SampleParsed(t) ==
    Answered(t) /\ dashboard.valid /\ dashboard.widgets = <<SampleDoses>>
        => /\ snapshot'.mode = "Dose1"
           /\ snapshot'.dose1 = 1850
           /\ snapshot'.dose2 = 3200

\* C26 as stated: the sample doses widget yields {Dose1, 18.5, 32}; each dose
\* is extracted on its own, a weight of exactly zero is "not present" and any
\* non-zero weight is present.
C26_Original ==
    [][\A t \in Threads :
        /\ SampleParsed(t)
        /\ Answered(t) /\ dashboard.valid
            => /\ snapshot'.dose1 = DoseGiven(dashboard, "Dose1", TRUE)
               /\ snapshot'.dose2 = DoseGiven(dashboard, "Dose2", TRUE)]_vars

\* C26, amended: the sample doses widget yields {Dose1, 18.5, 32}; each dose
\* is extracted on its own, whatever the other dose is; a weight of zero or
\* below is "not present" and any weight above zero is present.
C26_DoseExtraction ==
    [][\A t \in Threads :
        /\ SampleParsed(t)
        /\ Answered(t) /\ dashboard.valid
            => /\ snapshot'.dose1 = DoseGiven(dashboard, "Dose1", FALSE)
               /\ snapshot'.dose2 = DoseGiven(dashboard, "Dose2", FALSE)]_vars

\* A doses widget with a first dose of zero and a second one of 32 g has
\* been parsed: the first dose is absent, the second is there.
C26_Witness ==
    /\ dashboard.valid
    /\ Len(dashboard.widgets) = 1
    /\ dashboard.widgets[1].code = "CMBrewByWeightDoses"
    /\ dashboard.widgets[1].dose1 = <<0>>
    /\ dashboard.widgets[1].dose2 = <<3200>>
    /\ th["main"].pc = "notify"
    /\ snapshot.dose1 = NoDose
    /\ snapshot.dose2 = 3200

\* The boiler widgets of body p whose output is an object.
Boilers(p) ==
    {i \in 1..Len(p.widgets) :
        p.widgets[i].code \in {"CMCoffeeBoiler", "CMBoilerStatus"} /\ p.widgets[i].output}

\* C27: of a boiler widget, a countdown of 45 s without a time of readiness
\* gives {ready: false, remainingSeconds: 45}, and ready is true exactly with
\* the status "Ready"; a time of readiness in the future gives the whole
\* seconds from now to then; one that is not in the future leaves the
\* countdown of the widget in place.
C27_BoilerCountdown ==
    [][\A t \in Threads :
        Answered(t) /\ dashboard.valid /\ Boilers(dashboard) # {} =>
            LET w == dashboard.widgets[CHOOSE i \in Boilers(dashboard) :
                                          \A j \in Boilers(dashboard) : j <= i]
                b == snapshot'.boiler
                ms == UnixMilli(now)
                explicit == IF w.remainingSeconds = <<>> THEN 0 ELSE w.remainingSeconds[1]
            IN  /\ b.Ready = (w.status = "Ready")
                /\ w.readyStartTime = <<>> /\ w.remainingSeconds = <<45>>
                        => b.RemainingSeconds = 45
                /\ w.readyStartTime # <<>> =>
                        IF w.readyStartTime[1] > ms
                        THEN /\ b.RemainingSeconds * 1000 <= w.readyStartTime[1] - ms
                             /\ w.readyStartTime[1] - ms < (b.RemainingSeconds + 1) * 1000
                        ELSE b.RemainingSeconds = explicit]_vars

\* At minute 55 a heating boiler with a countdown of 45 s that is ready 1.5 s
\* later has been parsed: one whole second remains.
C27_Witness ==
    /\ dashboard.valid
    /\ Len(dashboard.widgets) = 1
    /\ dashboard.widgets[1].code = "CMCoffeeBoiler"
    /\ dashboard.widgets[1].status = "Heating"
    /\ dashboard.widgets[1].remainingSeconds = <<45>>
    /\ dashboard.widgets[1].readyStartTime = <<UnixMilli(now) + 1500>>
    /\ th["main"].pc = "notify"
    /\ snapshot.boiler = [Ready |-> FALSE, RemainingSeconds |-> 1]

\* The CMMachineStatus widgets of body p that hold a status string.
Statuses(p) ==
    {i \in 1..Len(p.widgets) :
        /\ p.widgets[i].code = "CMMachineStatus"
        /\ p.widgets[i].output
        /\ p.widgets[i].status # "absent"}

\* C28: the power-status widget is authoritative.  When the body holds a
\* CMMachineStatus widget with a status string, machineOn is (status =
\* "PoweredOn"), whatever the top-level connected flag says and wherever the
\* widget stands in the list (the last one decides when there are several);
\* only a body without such a status falls back to the connected flag.
C28_StatusAuthoritative ==
    [][\A t \in Threads :
        Answered(t) /\ dashboard.valid =>
            IF Statuses(dashboard) # {}
            THEN LET last == CHOOSE i \in Statuses(dashboard) :
                                \A j \in Statuses(dashboard) : j <= i
                 IN  snapshot'.machineOn = (dashboard.widgets[last].status = "PoweredOn")
            ELSE snapshot'.machineOn = (dashboard.connected = <<TRUE>>)]_vars

\* A body that is connected and whose status widget, the last of the list,
\* says "StandBy" has been parsed: the machine is off.
C28_Witness ==
    /\ dashboard.valid
    /\ dashboard.connected = <<TRUE>>
    /\ dashboard.widgets =
            <<SampleDoses, [Widget("CMMachineStatus") EXCEPT !.status = "StandBy"]>>
    /\ th["main"].pc = "notify"
    /\ ~snapshot.machineOn
    /\ snapshot.dose1 = 1850

\* Byte x rotated left within 8 bits by k: bit i of the result is bit i - k
\* of x, counted modulo 8.
Rotl8(x, k) == Byte([i \in 0..7 |-> Bit(x, (i + 8 - k) % 8)])

\* The fold over the bytes bs from the cells work, cell j being work[j + 1]:
\* byte b sets cell b mod 32 to (b XOR that cell) rotated left by
\* (cell (b mod 32 + 1) mod 32) AND 7.
RECURSIVE ProofFold(_, _)
ProofFold(work, bs) ==
    IF bs = <<>> THEN work
    ELSE LET b == Head(bs)
             j == b % 32
             k == And(work[((j + 1) % 32) + 1], 7)
         IN  ProofFold([work EXCEPT ![j + 1] = Rotl8(Xor(b, work[j + 1]), k)], Tail(bs))

\* C29: the work array of GenerateRequestProof is the sequential fold of the
\* bytes of the base string taken so far, started from a copy of the 32-byte
\* secret, where a shift of 0 leaves the byte as it is; the caller's secret
\* and base string are never modified, so the final work array is a function
\* of (baseString, secret).
C29_ProofFold ==
    /\ [](proof.pc \in {"loop", "hashed"} =>
            /\ Len(proof.secret) = 32
            /\ proof.work =
                    ProofFold(proof.secret, SubSeq(proof.baseString, 1, proof.done))
            /\ proof.pc = "hashed" => proof.done = Len(proof.baseString))
    /\ [][/\ proof'.secret = proof.secret
          /\ proof'.baseString = proof.baseString]_vars

\* The proof of a base string of three bytes whose first and last byte meet
\* in one cell has been folded into a work array that differs from the secret.
C29_Witness ==
    /\ proof.pc = "hashed"
    /\ Len(proof.baseString) = 3
    /\ proof.baseString[1] % 32 = proof.baseString[3] % 32
    /\ proof.baseString[1] # proof.baseString[3]
    /\ proof.work # proof.secret
    /\ proof.work = ProofFold(proof.secret, proof.baseString)

\* The INTEGER that starts at byte at of der encodes the positive integer n:
\* tag 2, a length byte that counts the content bytes, a zero byte first
\* exactly when the top byte of n has its high bit set, then the bytes of n.
IntegerAt(der, at, n) ==
    LET pad == IF n[1] >= 128 THEN 1 ELSE 0
    IN  /\ der[at] = 2
        /\ der[at + 1] = pad + Len(n)
        /\ pad = 1 <=> der[at + 2] = 0
        /\ SubSeq(der, at + 2 + pad, at + 1 + pad + Len(n)) = n

\* C30: DER round trip.  For r and s positive and of up to 256 bits,
\* decoding encodeDERSignature(r, s) as SEQUENCE {INTEGER, INTEGER} gives
\* back (r, s); each integer has a leading zero byte exactly when its top
\* byte has the high bit set, and every length byte is the number of content
\* bytes that follow it.
C30_DerRoundTrip ==
    /\ sig.pc \in {"encoded", "read"} =>
            LET rLen == Len(sig.r) + (IF sig.r[1] >= 128 THEN 1 ELSE 0)
                sLen == Len(sig.s) + (IF sig.s[1] >= 128 THEN 1 ELSE 0)
            IN  /\ sig.der[1] = 48
                /\ sig.der[2] = Len(sig.der) - 2
                /\ Len(sig.der) = 2 + (2 + rLen) + (2 + sLen)
                /\ IntegerAt(sig.der, 3, sig.r)
                /\ IntegerAt(sig.der, 5 + rLen, sig.s)
    /\ sig.pc = "read" => sig.read = <<sig.r, sig.s>>

\* A signature whose r has 32 bytes with the high bit set and whose s has
\* not has been encoded in 2 + 35 + 34 bytes and read back.
C30_Witness ==
    /\ sig.pc = "read"
    /\ Len(sig.r) = KeyBytes /\ sig.r[1] >= 128
    /\ Len(sig.s) = KeyBytes /\ sig.s[1] < 128
    /\ Len(sig.der) = 71
    /\ sig.der[5] = 0
    /\ sig.read = <<sig.r, sig.s>>

\* C34: the request that is sent again after a 401 carries the access token
\* of the forced re-authentication, not the rejected one, and signature
\* headers made anew for it.
C34_RetryFresh ==
    \A t \in Threads :
        th[t].pc = "target" /\ ~th[t].allowRetry
            => /\ th[t].signed
               /\ th[t].accessToken # 0
               /\ th[t].targets = <<StatusUnauthorized>>

\* C38: once a token is stored the token slot is never empty again, whatever
\* fails later; so the read of c.token.AccessToken that follows a successful
\* ensureValidToken always finds a token, and GetStatus' Connected, which is
\* c.token != nil, never goes back to false.
C38_TokenNeverCleared ==
    /\ [][token # NoToken => token' # NoToken]_vars
    /\ [](\A t \in Threads : th[t].pc = "exec_token" => token # NoToken)

\* A forced re-authentication has failed and the token is still there.
C38_Witness ==
    /\ token # NoToken
    /\ \E t \in Threads : th[t].pc = "exec_ret" /\ th[t].err = ErrReauth

\* C35: onStatusChange returns at once whether statusChan is full or not (a
\* goroutine at its notification can always take the step), and
\* broadcastStatus never waits for a slow event stream: with the read lock
\* held it can always go on to the next client, and a client whose channel
\* is full is passed over with its channel left as it is.
C35_NeverBlocks ==
    /\ [](\A t \in Threads :
             th[t].pc = "notify" /\ onStatusChange = "web"
                 => ENABLED notifyStatusChange(t))
    /\ [](\A c \in SseIds :
             web.loop.pc = "send" /\ c \in web.loop.todo
                 => ENABLED broadcastStatus_send(c))
    /\ [][\A c \in SseIds :
             /\ web.loop.pc = "send"
             /\ c \in web.loop.todo
             /\ c \notin web'.loop.todo
             /\ Len(web.clients[c].channel) = ChannelSize
             => web'.clients[c].channel = web.clients[c].channel]_vars

\* a status was left out of the full statusChan, and a broadcast has passed
\* over a client with a full channel and served the other
C35_Witness ==
    /\ web.dropped
    /\ web.loop.pc = "send"
    /\ \E c, d \in SseIds :
          /\ c \in web.loop.skipped
          /\ d \in web.sseClients \ (web.loop.todo \cup web.loop.skipped)
          /\ web.clients[d].channel # <<>>

\* C40: broadcastStatus never sends on a closed channel.  A channel is taken
\* out of the registry and closed by a handler that holds the mutex alone;
\* broadcastStatus sends only while it holds the read lock, and only to
\* channels that are in the registry, none of which is closed.
C40_NoSendOnClosed ==
    /\ ~web.panic
    /\ web.loop.pc = "send"
           => /\ "broadcastLoop" \in web.mu.readers
              /\ web.mu.writer = "none"
              /\ web.loop.todo \subseteq web.sseClients
    /\ \A c \in SseIds :
          /\ web.clients[c].pc = "closed" => c \notin web.sseClients
          /\ web.clients[c].pc \in {"register", "close"}
                 => web.mu.writer = c /\ web.mu.readers = {}

\* a handler waits with its deferred close while broadcastStatus has yet to
\* send to its channel, and another channel is already closed
C40_Witness ==
    /\ web.loop.pc = "send"
    /\ \E c, d \in SseIds :
          /\ web.clients[c].pc = "defer"
          /\ c \in web.loop.todo
          /\ web.clients[d].pc = "closed"

\* C31: every status change the client detects, by a poll or by a command
\* that succeeded, is published to the status topic, with the web interface
\* enabled or not: the step in which a goroutine passes its notification puts
\* the status of that moment on the topic.
C31_EveryChangePublished ==
    [][\A t \in Threads :
          th[t].pc = "notify" /\ th'[t].pc # "notify"
              => published' = [status |-> GetStatus, seq |-> 1 - published.seq]]_vars

\* a queue that gives up its oldest element when it is full
DropOldest(ch, x, size) ==
    IF Len(ch) < size THEN Append(ch, x) ELSE Append(Tail(ch), x)

\* C32: the web server's callback forwards every status to a bounded queue
\* that drops its oldest element when it is full, so that the status given
\* last is the last element of the queue (the last to be broadcast).
C32_DropOldest ==
    [][\A t \in Threads :
          th[t].pc = "notify" /\ th'[t].pc # "notify" /\ onStatusChange = "web"
              => /\ web'.statusChan = DropOldest(web.statusChan, GetStatus, StatusChanSize)
                 /\ web'.statusChan[Len(web'.statusChan)] = GetStatus]_vars

\* the operations the command goroutine has run, in the order it ran them
Ran == [i \in 1..Len(mq.log) |-> mq.log[i].op]

\* the fields among the first k of the fixed order that the command has
Asked(k) == SelectSeq(SubSeq(Stages, 1, k), LAMBDA stage : Has(mq.cmd, stage))

\* the client operation the goroutine is in
InOperation(stage) ==
    /\ th["main"].caller = CASE stage \in {"dose1", "dose2"} -> "SetDose"
                             [] stage = "mode" -> "SetMode"
                             [] stage = "backflush" -> "StartBackFlush"
    /\ stage = "dose1" => th["main"].doseId = "Dose1"
    /\ stage = "dose2" => th["main"].doseId = "Dose2"

\* C36: a command with several fields runs its operations one after the
\* other in the order dose1, dose2, mode, backflush, in one goroutine: what
\* has been run is, in that order, every field the command has among those
\* the goroutine has passed, whatever the earlier operations returned; the
\* goroutine is in one operation at a time.  A payload with none of the
\* fields is rejected, and a rejected payload starts no operation.
C36_FixedOrder ==
    /\ mq.pc = "run" => Ran = Asked(mq.stage - 1) /\ th["main"].pc = "idle"
    /\ mq.pc = "wait"
           => /\ Ran = Asked(mq.stage - 1)
              /\ Has(mq.cmd, Stages[mq.stage])
              /\ th["main"].pc # "idle" => InOperation(Stages[mq.stage])
    /\ mq.pc = "done" => Ran = Asked(Len(Stages)) /\ th["main"].pc = "idle"
    /\ mq.pc \in {"run", "wait", "done"}
           => \/ mq.cmd.Mode # ""
              \/ mq.cmd.Dose1 # <<>>
              \/ mq.cmd.Dose2 # <<>>
              \/ mq.cmd.BackFlush # <<>>
              \/ mq.cmd.Power # <<>>
    /\ mq.pc = "rejected" => mq.log = <<>> /\ th["main"].pc = "idle"

\* a command with all four fields has run its four operations, the first of
\* which failed and the last of which succeeded
C36_Witness ==
    /\ mq.pc = "done"
    /\ Ran = Stages
    /\ mq.log[1].err # ErrNil
    /\ mq.log[4].err = ErrNil

\* C33: a command with a power field on the command topic results in
\* SetPower: when the goroutine of such a command has ended, setting the
\* power is among the operations it has run.
C33_PowerCommand ==
    mq.pc = "done" /\ mq.cmd.Power # <<>>
        => \E i \in 1..Len(mq.log) : mq.log[i].op = "power"

\* every condition of the trigger matches the payload
Matches(trigger, payload) ==
    \A i \in 1..Len(trigger.Conditions) :
        matchValue(payload[trigger.Conditions[i].Selector], trigger.Conditions[i].Value)

\* the triggers of the topic that match the message being handled
Matching == {i \in 1..Len(mq.triggers) : Matches(mq.triggers[i], mq.payload)}

\* C37: the triggers of a topic are tried in the order of the configuration.
\* A trigger matches only if all of its conditions match, and a condition on
\* a selector the payload does not have never matches.  A message leads to
\* at most one SetMode, with the mode of the first trigger that matches, and
\* to none if no trigger matches.
C37_FirstMatchingTrigger ==
    /\ \A sel \in Selectors : \A v \in ExpectedValues : ~matchValue(Missing, v)
    /\ mq.pc \in {"unmatched", "go", "spawned"}
           => /\ mq.calls <= 1
              /\ IF Matching = {}
                 THEN mq.pc = "unmatched" /\ mq.fired = <<>>
                 ELSE LET first == CHOOSE i \in Matching : \A j \in Matching : i <= j
                      IN  /\ mq.pc # "unmatched"
                          /\ mq.fired = <<ParseDoseMode(mq.triggers[first].Mode)>>
                          /\ \A k \in 1..Len(mq.triggers[first].Conditions) :
                                mq.payload[mq.triggers[first].Conditions[k].Selector].exists
    /\ mq.pc = "unmatched" => mq.calls = 0 /\ th["main"].pc = "idle"
    /\ mq.pc = "go" => mq.calls = 0 /\ th["main"].pc = "idle"
    /\ mq.pc = "spawned"
           => /\ mq.calls = 1
              /\ th["main"].pc # "idle"
                     => th["main"].caller = "SetMode" /\ th["main"].mode = mq.fired[1]

\* both triggers of the topic match the message, the second with two
\* conditions, and SetMode has been called once, with the mode of the first
C37_Witness ==
    /\ mq.pc = "spawned"
    /\ Matching = {1, 2}
    /\ Len(mq.triggers[2].Conditions) = 2
    /\ Len(mq.triggers[1].Conditions) = 1
    /\ mq.calls = 1
    /\ th["main"].pc = "ensureValidToken"
    /\ th["main"].mode = "Dose1"

\* C39: GetStatus never returns a torn snapshot: the six fields it returns
\* are those of one state of the machine data, the state the last writer had
\* left when GetStatus took the read lock; no field changes while GetStatus
\* copies, and nobody copies while a writer is between its assignments.
C39_NoTornSnapshot ==
    /\ rw.reader.pc = "return" => rw.reader.got = rw.reader.seen
    /\ rw.reader.pc = "read"
           => /\ snapshot = rw.reader.seen
              /\ \A k \in 1..(rw.reader.k - 1) :
                    rw.reader.got[Fields[k]] = rw.reader.seen[Fields[k]]
    /\ rw.writer.pc = "store" => rw.reader.pc \in {"idle", "return"}

\* GetStatus returns the data of a poll that found the boilers heating,
\* while the next poll has stored half of the data of a machine in standby
C39_Witness ==
    /\ rw.reader.pc = "return"
    /\ rw.reader.got = extractDataFromDashboard(HeatingPayload, now)
    /\ rw.writer.pc = "store"
    /\ rw.writer.k = 4
    /\ rw.writer.data = extractDataFromDashboard(StandbyPayload, now)
    /\ snapshot # rw.reader.got

=============================================================================
